---- MODULE Spec2Model ----
(***************************************************************************)
(* A model of the frame-sampling, clip bookkeeping, annotation-store and   *)
(* export pipeline of LabelGenerator (src/src/components/ImageAnnotator).  *)
(*                                                                         *)
(* Times are counted in ticks of half a second: every slider that sets a   *)
(* time (frame interval, clip frame interval) moves in steps of 0.5 s.     *)
(***************************************************************************)
EXTENDS Integers, Sequences, FiniteSets, TLC

(***************************************************************************)
(* Bounds of the model and constants of the program.                       *)
(***************************************************************************)
TicksPerSecond == 2
SecondsPerMinute == 60
MaxDuration == 125
MaxIntervalTicks == 3
MaxChunkMinutes == 1
FramesPerClipStep == 8
MaxFramesPerClipSteps == 2
MaxClipDuration == 40
MaxExports == 3
MaxRuns == 2
MaxStoreFrames == 2
MaxFrameIntervalSeconds == 5
MaxFiles == 2
MaxClips == 2
MaxIngests == 1
MaxMarkerTicks == 401
MaxMarkers == 2
MaxExtractions == 1
MaxBatchClicks == 1
MaxCanvasSide == 4
MaxOperations == 1
MaxSeeks == 2
MaxDetections == 2
MaxMounts == 2
MaxStemLen == 2

VARIABLES
    \* ---- direct video sampling (extractFramesFromVideo / extractFramesFromChunk)
    duration,          \* video.duration of the uploaded video, in ticks
    frameInterval,     \* state frameInterval, in ticks
    chunkDuration,     \* state chunkDuration, in minutes
    videoPc,           \* position of extractFramesFromVideo
    chunkIndex,        \* loop variable of the chunk loop
    startTime,         \* arguments of the running extractFramesFromChunk
    endTime,
    globalFrameOffset,
    chunkFrames,       \* local of extractFramesFromChunk
    chunkI,            \* loop variable i of extractFramesFromChunk
    seeks,             \* every video.currentTime assignment so far, with its frameNumber
    scene,             \* the pictures of the video: what the detector finds on them
    upload,            \* the running call of handleVideoUpload
    chunkResult,       \* locals frames and blurryIndices of extractFramesFromChunk
    allFrames,         \* locals of extractFramesFromVideo
    allBlurryIndices,
    \* ---- automatic clip creation (createClipsFromVideo)
    clipVideoDuration, \* video.duration of the clip video, in ticks
    clipFrameInterval, \* state clipFrameInterval, in ticks
    framesPerClip,     \* state framesPerClip
    clipPc,            \* position of createClipsFromVideo
    totalFrames,
    numClips,
    clipIdx,
    frameInClip,
    clipFrames,        \* frames of the clip being built
    createdClips,      \* clips built so far
    \* ---- annotation store (useState of ImageAnnotator)
    objs,              \* the frame objects (ImageData) alive, by object identity
    images,            \* state images: the frame objects in store order
    currentIndex,      \* state currentIndex (0-based)
    selectedDetection, \* state selectedDetection (0-based), -1 for null
    selectedImages,    \* state selectedImages: the review-marked indices (0-based)
    isProcessing,      \* state isProcessing
    \* ---- clip counter registry and export (handleExportAnnotatedClips)
    exportOnlyLabeled, \* state exportOnlyLabeled
    labelClipCounters, \* state labelClipCounters, persisted in localStorage
    exports,           \* the running and the finished calls of handleExportAnnotatedClips
    exportsStarted,    \* how many exports were started
    lastExported,      \* per label, the ordinals of the last export that completed
    \* ---- asynchronous handlers that work on the store
    redetect,          \* the running call of handleRedetect
    \* ---- loading clips into the store (handleLoadClipsToAnnotator)
    clips,             \* state clips
    filterMotionBlur,  \* state filterMotionBlur
    loadClips,         \* the running call of handleLoadClipsToAnnotator
    \* ---- the manual clip editor (ManualClipEditor)
    markerVideoDuration, \* state duration of the editor: video.duration, in ticks
    markers,           \* state markers
    pendingMarkerStart, \* state pendingMarkerStart
    extract,           \* the running call of extractClipsFromMarkers
    \* ---- the keys and the batch button
    keyHandler,        \* images and selectedImages seen by the registered keydown handler
    batch,             \* the running call of the batch button
    \* ---- the boxes of the detections (detectObjects, extractFramesFromChunk)
    canvas,            \* the canvas the video frame is drawn on: videoWidth x videoHeight
    enhanceVideo,      \* state enhanceVideo
    enhanceScale,      \* state enhanceScale, in halves
    boundingBoxPadding, \* state boundingBoxPadding, in percent
    detectPc,          \* position of the frame step of extractFramesFromChunk
    frameDetections,   \* local detections of the frame step
    boxFrames,         \* the frames pushed, with their size and their boxes
    \* ---- the detection model and the handlers that need it
    model,             \* state model: "null" until the detector is loaded
    toast,             \* the last toast.error
    fileUpload,        \* the running call of handleFileUpload
    \* ---- the video elements of the frame loops
    videos,            \* per element: the loop, the seeks outstanding, the frames
    \* ---- the files of a video upload
    videoFiles,        \* per file: whether it loads, and its video.duration in ticks
    \* ---- the persisted clip counters
    localStorage,      \* the entry "labelClipCounters" of window.localStorage
    session,           \* the page: whether it is mounted, and what it loaded
    \* ---- the folder names of the export
    exportLabels,      \* two labels as they are typed, character by character
    folderNames        \* the folder names the export has made of them

samplingVars == <<duration, frameInterval, chunkDuration, videoPc, chunkIndex,
                  startTime, endTime, globalFrameOffset, chunkFrames, chunkI, seeks,
                  scene, upload, chunkResult, allFrames, allBlurryIndices>>
clipVars == <<clipVideoDuration, clipFrameInterval, framesPerClip, clipPc,
              totalFrames, numClips, clipIdx, frameInClip, clipFrames, createdClips>>
storeVars == <<objs, images, currentIndex, selectedDetection, selectedImages, isProcessing>>
exportVars == <<exportOnlyLabeled, labelClipCounters, exports, exportsStarted, lastExported>>
opsVars == <<redetect>>
ingestVars == <<clips, filterMotionBlur, loadClips>>
manualVars == <<markerVideoDuration, markers, pendingMarkerStart, extract>>
annotateVars == <<keyHandler, batch>>
boxVars == <<canvas, enhanceVideo, enhanceScale, boundingBoxPadding, detectPc,
             frameDetections, boxFrames>>
modelVars == <<model, toast, fileUpload>>
seekVars == <<videos>>
batchVars == <<videoFiles>>
storageVars == <<localStorage, session>>
pathVars == <<exportLabels, folderNames>>
detectVars == <<boxVars, modelVars, seekVars, batchVars, storageVars, pathVars>>
vars == <<samplingVars, clipVars, storeVars, exportVars, opsVars, ingestVars, manualVars,
          annotateVars, detectVars>>

(***************************************************************************)
(* Arithmetic of the source: Math.floor, Math.ceil and Math.min on         *)
(* non-negative quotients.                                                 *)
(***************************************************************************)
Floor(a, b) == a \div b
Ceil(a, b) == (a + b - 1) \div b
Min(a, b) == IF a <= b THEN a ELSE b

\* const CHUNK_DURATION = chunkDuration * 60, in ticks
CHUNK_DURATION == chunkDuration * SecondsPerMinute * TicksPerSecond

(***************************************************************************)
(* Labels.  A label is a string; the source trims and lower-cases labels,  *)
(* so the model carries labels with surrounding blanks and with capitals.  *)
(***************************************************************************)
NoLabel == ""

\* String.prototype.trim on the labels of the model
Trim(l) ==
    CASE l = " Weld " -> "Weld"
      [] l = "Cut/Dry " -> "Cut/Dry"
      [] l = "  " -> ""
      [] OTHER -> l

\* String.prototype.toLowerCase on the labels of the model
ToLowerCase(l) ==
    CASE l = "Person" -> "person"
      [] l = "Car" -> "car"
      [] l = "Weld" -> "weld"
      [] l = " Weld " -> " weld "
      [] l = "Grind" -> "grind"
      [] l = "Cut/Dry" -> "cut/dry"
      [] l = "Cut/Dry " -> "cut/dry "
      [] OTHER -> l

\* the denylist of class names of the pretrained detector (two of its eighty)
cocoLabels == {"person", "car"}

\* the names a clip or a video can have, in the order of localeCompare
ClipNames == <<"clipA", "clipB", "ungrouped">>

ClipRank(name) == CHOOSE k \in 1..Len(ClipNames) : ClipNames[k] = name

\* a.localeCompare(b) <= 0 on clip names
ClipNameLeq(a, b) == ClipRank(a) <= ClipRank(b)

(***************************************************************************)
(* The annotation store.  A frame object is an ImageData; images holds the *)
(* identities of the frame objects, so that an assignment to a field of    *)
(* newImages[i] is seen through every array that holds the same object.    *)
(***************************************************************************)
NoObjects == [o \in {} |-> 0]

NoSelection == -1

InitStoreEmpty ==
    /\ objs = NoObjects
    /\ images = <<>>
    /\ currentIndex = 0
    /\ selectedDetection = NoSelection
    /\ selectedImages = {}
    /\ isProcessing = FALSE

\* the frame at 0-based index idx of the store
FrameAt(idx) == objs[images[idx + 1]]

\* the elements of a sequence
Range(s) == {s[k] : k \in 1..Len(s)}

IdleRedetect ==
    [pc |-> "idle", images |-> <<>>, i |-> 0, keepLabel |-> NoLabel, newImages |-> <<>>,
     before |-> <<>>]

InitOps == redetect = IdleRedetect

\* the frame objects that a running handler still holds in its closure or
\* in its locals
HeldByRedetect == Range(redetect.images)
HeldByUpload ==
    Range(chunkResult.frames) \cup Range(allFrames) \cup Range(upload.allFrames)
        \cup Range(upload.partial)
HeldByLoadClips == Range(loadClips.allImages)
HeldByKeys == Range(keyHandler.images) \cup Range(batch.newImages)
HeldObjects == HeldByRedetect \cup HeldByUpload \cup HeldByLoadClips \cup HeldByKeys

\* the frame objects that stay reachable when the store becomes newStore
Retain(newStore) == [o \in DOMAIN objs \cap (Range(newStore) \cup HeldObjects) |-> objs[o]]

\* the activity labels the operator picks from (activityLabels)
ActivityLabels == {"Weld", "Grind"}

\* the label on the key F
quickLabelF == "Weld"

\* the label on the key G: it has a slash, as the default "Putzen/Nacharbeiten"
\* has, and the operator has typed a blank behind it
quickLabelG == "Cut/Dry "

\* the label on the key H, after the operator has typed blanks into its field
quickLabelH == "  "

\* applyQuickLabel: the label goes to the current frame and to each of its
\* detections, in the frame object itself, and the frame is un-marked
ApplyQuickLabel(label) ==
    /\ Len(images) > 0
    /\ currentIndex < Len(images)
    /\ objs' = [objs EXCEPT ![images[currentIndex + 1]] =
                   [@ EXCEPT !.activityLabel = label,
                             !.detections = [k \in 1..Len(@) |-> [@[k] EXCEPT !.label = label]]]]
    /\ selectedImages' = selectedImages \ {currentIndex}
    /\ UNCHANGED <<images, currentIndex, selectedDetection, isProcessing>>

(***************************************************************************)
(* Generic sequence helpers.                                               *)
(***************************************************************************)
\* the elements of s without repeats, in the order of their first occurrence
RECURSIVE Distinct(_)
Distinct(s) ==
    IF s = <<>> THEN <<>>
    ELSE LET rest == Distinct(SelectSeq(Tail(s), LAMBDA x : x # Head(s)))
         IN  <<Head(s)>> \o rest

\* s without its last element
Front(s) == SubSeq(s, 1, Len(s) - 1)

\* the last element of s
Last(s) == s[Len(s)]

(***************************************************************************)
(* The detector.  A detection carries the class the network reported (cls),*)
(* the label detectObjects made of it (the class name with a capital), and *)
(* blurScore, the value detectMotionBlur computes for its region.          *)
(***************************************************************************)
blurThreshold == 100

\* detectMotionBlur returns 999 for a region without inner pixels
SharpSentinel == 999

\* const label = pred.class.charAt(0).toUpperCase() + pred.class.slice(1)
Capitalize(cls) ==
    CASE cls = "person" -> "Person"
      [] cls = "car" -> "Car"
      [] OTHER -> cls

Detection(cls, blurScore) == [cls |-> cls, label |-> Capitalize(cls), blurScore |-> blurScore]

\* what one call of detectObjects can resolve with
DetectorOutputs ==
    {<<>>,
     <<Detection("car", SharpSentinel)>>,
     <<Detection("car", SharpSentinel), Detection("person", blurThreshold - 1)>>,
     <<Detection("person", blurThreshold)>>,
     <<Detection("person", blurThreshold - 1), Detection("person", SharpSentinel)>>}

\* detections.filter(d => d.label.toLowerCase() === 'person')
PersonsOfMutant(detections) == detections

PersonsOf(detections) == SelectSeq(detections, LAMBDA d : ToLowerCase(d.label) = "person")

\* the test of the blur loop: blurScore >= blurThreshold ends it with allBlurry = false
IsSharpMutant(blurScore) == blurScore > blurThreshold

IsSharp(blurScore) == blurScore >= blurThreshold

\* let allBlurry = true; for (const detection of personDetections) { ... }
AllBlurry(personDetections) ==
    \A k \in 1..Len(personDetections) : ~IsSharp(personDetections[k].blurScore)

\* the picture sequences of the model: the detector output for the pictures
\* of a video or of the clips, repeated in this order
Scenes ==
    {<<<<Detection("person", blurThreshold - 1)>>,
       <<Detection("car", SharpSentinel)>>,
       <<Detection("person", blurThreshold)>>>>,
     <<<<>>,
       <<Detection("car", SharpSentinel), Detection("person", blurThreshold - 1)>>>>,
     <<<<Detection("person", blurThreshold - 1), Detection("person", SharpSentinel)>>,
       <<Detection("person", blurThreshold - 1), Detection("person", blurThreshold - 1)>>,
       <<>>,
       <<>>,
       <<>>>>}

\* what detectObjects resolves with for the n-th picture (n = 0, 1, ...)
PictureOf(pattern, n) == IF pattern = <<>> THEN <<>> ELSE pattern[(n % Len(pattern)) + 1]

SceneAt(n) == PictureOf(scene, n)

\* the identity of the next frame object
FreshOid == CHOOSE o \in 1..(Cardinality(DOMAIN objs) + 1) :
                /\ o \notin DOMAIN objs
                /\ \A p \in 1..(o - 1) : p \in DOMAIN objs

\* the heap with one more frame object
WithObject(heap, oid, frame) == [o \in DOMAIN heap \cup {oid} |-> IF o = oid THEN frame ELSE heap[o]]


(***************************************************************************)
(* Direct video sampling (handleVideoUpload, extractFramesFromVideo,       *)
(* extractFramesFromChunk).  The handlers read frameInterval,              *)
(* chunkDuration, filterMotionBlur and blurThreshold from the render they  *)
(* were started in.  Every file of one upload shows the same video.        *)
(***************************************************************************)
\* partial is not in the source: it keeps the frames of the chunks that were
\* completed before a chunk of the same video failed
IdleUpload ==
    [pc |-> "idle", runs |-> 0, files |-> 0, i |-> 0, allFrames |-> <<>>,
     allBlurryIndices |-> <<>>, partial |-> <<>>]

\* how many ingestions were started
IngestsStarted == upload.runs + loadClips.runs

NoChunkResult == [frames |-> <<>>, blurryIndices |-> <<>>]

\* the locals of a call of extractFramesFromVideo before processVideo runs
SamplingIdle ==
    /\ videoPc = "idle" /\ chunkIndex = 0 /\ startTime = 0 /\ endTime = 0
    /\ globalFrameOffset = 0 /\ chunkFrames = 0 /\ chunkI = 0 /\ seeks = <<>>
    /\ chunkResult = NoChunkResult /\ allFrames = <<>> /\ allBlurryIndices = <<>>

\* a new call of extractFramesFromVideo
SamplingReset ==
    /\ videoPc' = "idle" /\ chunkIndex' = 0 /\ startTime' = 0 /\ endTime' = 0
    /\ globalFrameOffset' = 0 /\ chunkFrames' = 0 /\ chunkI' = 0 /\ seeks' = <<>>
    /\ chunkResult' = NoChunkResult /\ allFrames' = <<>> /\ allBlurryIndices' = <<>>

InitSampling ==
    /\ duration \in 0..MaxDuration
    /\ frameInterval \in 1..MaxIntervalTicks
    /\ chunkDuration \in 1..MaxChunkMinutes
    /\ scene = <<>>
    /\ upload = IdleUpload
    /\ SamplingIdle

InitSamplingOff ==
    /\ duration = 0 /\ frameInterval = 1 /\ chunkDuration = 1
    /\ scene = <<>>
    /\ upload = IdleUpload
    /\ SamplingIdle

\* the names of the video files of one upload
VideoNames == <<"clipA", "clipB", "clipC">>

\* handleVideoUpload up to the first call of extractFramesFromVideo, which
\* waits for the metadata of the video.  The button "Video" is disabled while
\* isProcessing is true, the button "Video auswählen" of the empty store is not.
VideoUploadStart(n) ==
    /\ upload.pc = "idle"
    /\ ~isProcessing \/ Len(images) = 0
    /\ IngestsStarted < MaxIngests
    /\ isProcessing' = TRUE
    /\ upload' = [pc |-> "running", runs |-> upload.runs + 1, files |-> n, i |-> 0,
                  allFrames |-> <<>>, allBlurryIndices |-> <<>>, partial |-> <<>>]
    /\ SamplingReset
    /\ UNCHANGED <<duration, frameInterval, chunkDuration, scene,
                   objs, images, currentIndex, selectedDetection, selectedImages>>

\* extractFramesFromVideo, processVideo up to the chunk loop
TotalChunks == Ceil(duration, CHUNK_DURATION)

ProcessVideo ==
    /\ upload.pc = "running"
    /\ videoPc = "idle"
    /\ \/ /\ duration <= 0
          /\ videoPc' = "done"
       \/ /\ duration > 0
          /\ videoPc' = "chunks"
    /\ UNCHANGED <<duration, frameInterval, chunkDuration, scene, upload, chunkIndex,
                   startTime, endTime, globalFrameOffset, chunkFrames, chunkI, seeks,
                   chunkResult, allFrames, allBlurryIndices, storeVars>>

\* the head of the chunk loop and the call of extractFramesFromChunk
ChunkBegin ==
    /\ videoPc = "chunks"
    /\ chunkIndex < TotalChunks
    /\ startTime' = chunkIndex * CHUNK_DURATION
    /\ endTime' = Min((chunkIndex + 1) * CHUNK_DURATION, duration)
    /\ globalFrameOffset' = Floor(chunkIndex * CHUNK_DURATION, frameInterval)
    /\ chunkFrames' = Floor(endTime' - startTime', frameInterval)
    /\ chunkI' = 0
    /\ chunkResult' = NoChunkResult
    /\ videoPc' = "inChunk"
    /\ UNCHANGED <<duration, frameInterval, chunkDuration, scene, upload, chunkIndex, seeks,
                   allFrames, allBlurryIndices, storeVars>>

\* the time the loop of extractFramesFromChunk seeks to next
ChunkCurrentTime == startTime + chunkI * frameInterval

\* the loop guard and the break of extractFramesFromChunk
ChunkLoopContinues == chunkI <= chunkFrames /\ ~(ChunkCurrentTime > endTime)

\* the frame object extractFramesFromChunk builds
VideoFrame(frameNumber, personDetections) ==
    [file |-> frameNumber,
     sourceVideo |-> VideoNames[upload.i + 1],
     frameNumber |-> frameNumber,
     activityLabel |-> NoLabel,
     detections |-> personDetections]

\* one iteration of the loop of extractFramesFromChunk: seek, draw, detect,
\* and if a person was detected, check the blur and push the frame.  The
\* picture at a time is the same whenever the time is sought.
ChunkSeek ==
    /\ videoPc = "inChunk"
    /\ ChunkLoopContinues
    /\ seeks' = Append(seeks, [time |-> ChunkCurrentTime,
                               frameNumber |-> globalFrameOffset + chunkI])
    /\ chunkI' = chunkI + 1
    /\ LET detections == SceneAt(Floor(ChunkCurrentTime, frameInterval))
           personDetections == PersonsOf(detections)
           currentFrameIndex == Len(chunkResult.frames)
       IN  IF Len(personDetections) > 0
           THEN /\ chunkResult' =
                       [frames |-> Append(chunkResult.frames, FreshOid),
                        blurryIndices |->
                            IF filterMotionBlur /\ AllBlurry(personDetections)
                            THEN Append(chunkResult.blurryIndices, currentFrameIndex)
                            ELSE chunkResult.blurryIndices]
                /\ objs' = WithObject(objs, FreshOid,
                                      VideoFrame(globalFrameOffset + chunkI, personDetections))
           ELSE UNCHANGED <<chunkResult, objs>>
    /\ UNCHANGED <<duration, frameInterval, chunkDuration, scene, upload, videoPc, chunkIndex,
                   startTime, endTime, globalFrameOffset, chunkFrames,
                   allFrames, allBlurryIndices,
                   images, currentIndex, selectedDetection, selectedImages, isProcessing>>

\* the loop of extractFramesFromChunk throws and nothing catches it: the
\* promise of extractFramesFromVideo is never resolved
ChunkFailMutant ==
    /\ videoPc = "inChunk"
    /\ ChunkLoopContinues
    /\ videoPc' = "thrown"
    /\ allFrames' = <<>>
    /\ allBlurryIndices' = <<>>
    /\ chunkResult' = NoChunkResult
    /\ upload' = [upload EXCEPT !.partial = @ \o allFrames]
    /\ UNCHANGED <<duration, frameInterval, chunkDuration, scene, chunkIndex,
                   startTime, endTime, globalFrameOffset, chunkFrames, chunkI, seeks,
                   storeVars>>

\* an iteration of the loop of extractFramesFromChunk throws (drawImage,
\* enhanceFrame, getImageData of detectMotionBlur): extractFramesFromChunk
\* rejects, the catch of processVideo resolves the promise with
\* { frames: [], blurryIndices: [] }
ChunkFail ==
    /\ videoPc = "inChunk"
    /\ ChunkLoopContinues
    /\ videoPc' = "done"
    /\ allFrames' = <<>>
    /\ allBlurryIndices' = <<>>
    /\ chunkResult' = NoChunkResult
    /\ upload' = [upload EXCEPT !.partial = @ \o allFrames]
    /\ UNCHANGED <<duration, frameInterval, chunkDuration, scene, chunkIndex,
                   startTime, endTime, globalFrameOffset, chunkFrames, chunkI, seeks,
                   storeVars>>

\* chunkResult.blurryIndices.map(i => baseIndex + i)
Adjusted(indices, baseIndex) == [k \in 1..Len(indices) |-> baseIndex + indices[k]]

\* extractFramesFromChunk returns: the frames of the chunk go to allFrames,
\* and those of every chunk but the last also to the store; the chunk loop
\* goes on after the pause
ChunkEnd ==
    /\ videoPc = "inChunk"
    /\ ~ChunkLoopContinues
    /\ LET adjustedBlurryIndices == Adjusted(chunkResult.blurryIndices, Len(allFrames))
       IN  /\ allFrames' = allFrames \o chunkResult.frames
           /\ allBlurryIndices' = allBlurryIndices \o adjustedBlurryIndices
           /\ IF chunkIndex < TotalChunks - 1
              THEN /\ images' = images \o chunkResult.frames
                   /\ selectedImages' = selectedImages \cup Range(adjustedBlurryIndices)
              ELSE UNCHANGED <<images, selectedImages>>
    /\ chunkIndex' = chunkIndex + 1
    /\ videoPc' = "chunks"
    /\ UNCHANGED <<duration, frameInterval, chunkDuration, scene, upload, startTime, endTime,
                   globalFrameOffset, chunkFrames, chunkI, seeks, chunkResult,
                   objs, currentIndex, selectedDetection, isProcessing>>

\* the chunk loop ends and the promise resolves
VideoResolve ==
    /\ videoPc = "chunks"
    /\ ~(chunkIndex < TotalChunks)
    /\ videoPc' = "done"
    /\ UNCHANGED <<duration, frameInterval, chunkDuration, scene, upload, chunkIndex,
                   startTime, endTime, globalFrameOffset, chunkFrames, chunkI, seeks,
                   chunkResult, allFrames, allBlurryIndices, storeVars>>

\* handleVideoUpload after extractFramesFromVideo has resolved
UploadFrames == upload.allFrames \o allFrames
UploadBlurryIndices == upload.allBlurryIndices \o Adjusted(allBlurryIndices, Len(upload.allFrames))

\* the result of a file that is not the last is kept and extractFramesFromVideo
\* is called for the next file
VideoUploadNextFile ==
    /\ upload.pc = "running"
    /\ videoPc = "done"
    /\ upload.i + 1 < upload.files
    /\ upload' = [upload EXCEPT !.i = @ + 1,
                                !.allFrames = UploadFrames,
                                !.allBlurryIndices = UploadBlurryIndices]
    /\ SamplingReset
    /\ UNCHANGED <<duration, frameInterval, chunkDuration, scene, storeVars>>

\* the result of the last file is kept and the frames of all files become
\* the store, the blurred ones marked
VideoUploadFinish ==
    /\ upload.pc = "running"
    /\ videoPc = "done"
    /\ upload.i + 1 = upload.files
    /\ images' = UploadFrames
    /\ objs' = [o \in DOMAIN objs \cap (Range(UploadFrames) \cup HeldByRedetect \cup HeldByLoadClips) |-> objs[o]]
    /\ selectedImages' = Range(UploadBlurryIndices)
    /\ currentIndex' = 0
    /\ selectedDetection' = NoSelection
    /\ isProcessing' = FALSE
    /\ upload' = [IdleUpload EXCEPT !.runs = upload.runs, !.files = upload.files,
                                    !.i = upload.i + 1, !.partial = upload.partial]
    /\ chunkResult' = NoChunkResult /\ allFrames' = <<>> /\ allBlurryIndices' = <<>>
    /\ UNCHANGED <<duration, frameInterval, chunkDuration, scene, videoPc, chunkIndex,
                   startTime, endTime, globalFrameOffset, chunkFrames, chunkI, seeks>>

NextSampling ==
    \/ \E n \in 1..MaxFiles :
          VideoUploadStart(n) /\ UNCHANGED <<ingestVars, clipVars, exportVars, opsVars, manualVars, annotateVars, detectVars>>
    \/ ProcessVideo /\ UNCHANGED <<ingestVars, clipVars, exportVars, opsVars, manualVars, annotateVars, detectVars>>
    \/ ChunkBegin /\ UNCHANGED <<ingestVars, clipVars, exportVars, opsVars, manualVars, annotateVars, detectVars>>
    \/ ChunkSeek /\ UNCHANGED <<ingestVars, clipVars, exportVars, opsVars, manualVars, annotateVars, detectVars>>
    \/ ChunkEnd /\ UNCHANGED <<ingestVars, clipVars, exportVars, opsVars, manualVars, annotateVars, detectVars>>
    \/ ChunkFail /\ UNCHANGED <<ingestVars, clipVars, exportVars, opsVars, manualVars, annotateVars, detectVars>>
    \/ VideoResolve /\ UNCHANGED <<ingestVars, clipVars, exportVars, opsVars, manualVars, annotateVars, detectVars>>
    \/ VideoUploadNextFile /\ UNCHANGED <<ingestVars, clipVars, exportVars, opsVars, manualVars, annotateVars, detectVars>>
    \/ VideoUploadFinish /\ UNCHANGED <<ingestVars, clipVars, exportVars, opsVars, manualVars, annotateVars, detectVars>>


(***************************************************************************)
(* Automatic clip creation.                                                *)
(***************************************************************************)
ClipsIdle ==
    /\ clipPc = "idle" /\ totalFrames = 0 /\ numClips = 0 /\ clipIdx = 0
    /\ frameInClip = 0 /\ clipFrames = <<>> /\ createdClips = <<>>

InitClips ==
    /\ clipVideoDuration \in 0..MaxClipDuration
    /\ clipFrameInterval \in 1..MaxIntervalTicks
    /\ framesPerClip \in {FramesPerClipStep * k : k \in 1..MaxFramesPerClipSteps}
    /\ ClipsIdle

InitClipsOff ==
    /\ clipVideoDuration = 0 /\ clipFrameInterval = 1
    /\ framesPerClip = FramesPerClipStep
    /\ ClipsIdle

\* no clip video, any clip frame interval
InitClipsInterval ==
    /\ clipVideoDuration = 0
    /\ clipFrameInterval \in 1..MaxIntervalTicks
    /\ framesPerClip = FramesPerClipStep
    /\ ClipsIdle

\* the video of the example: 130 seconds, a frame each second, 32 frames per clip
ExampleClipSeconds == 130
ExampleFramesPerClip == 32

InitClipsExample ==
    /\ clipVideoDuration = ExampleClipSeconds * TicksPerSecond
    /\ clipFrameInterval = TicksPerSecond
    /\ framesPerClip = ExampleFramesPerClip
    /\ ClipsIdle

\* createClipsFromVideo, processVideo up to the clip loop
ClipsProcessVideo ==
    /\ clipPc = "idle"
    /\ \/ /\ clipVideoDuration <= 0
          /\ clipPc' = "done"
          /\ UNCHANGED <<totalFrames, numClips>>
       \/ /\ clipVideoDuration > 0
          /\ totalFrames' = Floor(clipVideoDuration, clipFrameInterval)
          /\ numClips' = Ceil(totalFrames', framesPerClip)
          /\ clipPc' = "clips"
    /\ UNCHANGED <<clipVideoDuration, clipFrameInterval, framesPerClip, clipIdx,
                   frameInClip, clipFrames, createdClips>>

\* the head of the clip loop
ClipBegin ==
    /\ clipPc = "clips"
    /\ clipIdx < numClips
    /\ clipFrames' = <<>>
    /\ frameInClip' = 0
    /\ clipPc' = "inClip"
    /\ UNCHANGED <<clipVideoDuration, clipFrameInterval, framesPerClip,
                   totalFrames, numClips, clipIdx, createdClips>>

ClipGlobalFrameIdx == clipIdx * framesPerClip + frameInClip
ClipCurrentTime == ClipGlobalFrameIdx * clipFrameInterval

\* the guard of the frame loop and its break
ClipLoopContinues == frameInClip < framesPerClip /\ ~(ClipCurrentTime > clipVideoDuration)

\* one iteration of the frame loop: seek, draw, push the frame
ClipSeek ==
    /\ clipPc = "inClip"
    /\ ClipLoopContinues
    /\ clipFrames' = Append(clipFrames, [time |-> ClipCurrentTime,
                                         frameNumber |-> frameInClip + 1])
    /\ frameInClip' = frameInClip + 1
    /\ UNCHANGED <<clipVideoDuration, clipFrameInterval, framesPerClip, clipPc,
                   totalFrames, numClips, clipIdx, createdClips>>

\* the frame loop ends: the clip is pushed when it has frames
ClipEnd ==
    /\ clipPc = "inClip"
    /\ ~ClipLoopContinues
    /\ createdClips' = IF Len(clipFrames) > 0
                       THEN Append(createdClips, clipFrames)
                       ELSE createdClips
    /\ clipIdx' = clipIdx + 1
    /\ clipPc' = "clips"
    /\ UNCHANGED <<clipVideoDuration, clipFrameInterval, framesPerClip,
                   totalFrames, numClips, frameInClip, clipFrames>>

\* the clip loop ends and the promise resolves with createdClips
ClipsResolve ==
    /\ clipPc = "clips"
    /\ ~(clipIdx < numClips)
    /\ clipPc' = "done"
    /\ UNCHANGED <<clipVideoDuration, clipFrameInterval, framesPerClip,
                   totalFrames, numClips, clipIdx, frameInClip, clipFrames, createdClips>>

NextClips ==
    \/ ClipsProcessVideo /\ UNCHANGED <<ingestVars, samplingVars, storeVars, exportVars, opsVars, manualVars, annotateVars, detectVars>>
    \/ ClipBegin /\ UNCHANGED <<ingestVars, samplingVars, storeVars, exportVars, opsVars, manualVars, annotateVars, detectVars>>
    \/ ClipSeek /\ UNCHANGED <<ingestVars, samplingVars, storeVars, exportVars, opsVars, manualVars, annotateVars, detectVars>>
    \/ ClipEnd /\ UNCHANGED <<ingestVars, samplingVars, storeVars, exportVars, opsVars, manualVars, annotateVars, detectVars>>
    \/ ClipsResolve /\ UNCHANGED <<ingestVars, samplingVars, storeVars, exportVars, opsVars, manualVars, annotateVars, detectVars>>

(***************************************************************************)
(* The clip counter registry.                                              *)
(***************************************************************************)
EmptyCounters == [l \in {} |-> 0]

\* counters[label] || 0
Counter(counters, label) == IF label \in DOMAIN counters THEN counters[label] ELSE 0

\* counters[label] = n
SetCounter(counters, label, n) ==
    [l \in DOMAIN counters \cup {label} |-> IF l = label THEN n ELSE counters[l]]

(***************************************************************************)
(* Export (handleExportAnnotatedClips).                                    *)
(***************************************************************************)
MAX_FRAMES_PER_CLIP == 200

\* getCustomLabel: the explicit activityLabel, else the first detection label
\* that is no class name of the detector; NoLabel for null
RECURSIVE FirstCustomDetectionLabel(_)
FirstCustomDetectionLabel(dets) ==
    IF dets = <<>> THEN NoLabel
    ELSE LET label == Trim(Head(dets).label)
         IN  IF label # "" /\ ToLowerCase(label) \notin cocoLabels
             THEN label
             ELSE FirstCustomDetectionLabel(Tail(dets))

\* getCustomLabel, mutated: the activityLabel as it is typed
getCustomLabelMutant(img) ==
    IF img.activityLabel # NoLabel THEN img.activityLabel
    ELSE FirstCustomDetectionLabel(img.detections)

\* getCustomLabel: the explicit activityLabel, then the detections
getCustomLabel(img) ==
    LET explicit == Trim(img.activityLabel)
    IN  IF explicit # "" THEN explicit ELSE FirstCustomDetectionLabel(img.detections)

\* const clipKey = (img.sourceVideo ?? "ungrouped").trim() || "ungrouped"
ClipKeyOf(img) == IF Trim(img.sourceVideo) = "" THEN "ungrouped" ELSE Trim(img.sourceVideo)

\* toSafePathSegment on the labels and clip names of the model: trim, then a
\* full-width character for each character a path cannot have ({FF0F} stands
\* for the full-width solidus), then no video extension at the end
toSafePathSegment(name) ==
    CASE Trim(name) = "Cut/Dry" -> "Cut{FF0F}Dry"
      [] OTHER -> Trim(name)

\* imagesToExport, mutated: the filter of exportOnlyLabeled is left out
ImagesToExportMutant(onlyLabeled) ==
    [k \in 1..Len(images) |->
        [oid |-> images[k],
         label |-> getCustomLabel(objs[images[k]]),
         clipKey |-> ClipKeyOf(objs[images[k]]),
         frameNumber |-> objs[images[k]].frameNumber,
         file |-> objs[images[k]].file]]

\* imagesToExport, each frame with its export label and its clip key
ImagesToExport(onlyLabeled) ==
    LET all == [k \in 1..Len(images) |->
                   [oid |-> images[k],
                    label |-> getCustomLabel(objs[images[k]]),
                    clipKey |-> ClipKeyOf(objs[images[k]]),
                    frameNumber |-> objs[images[k]].frameNumber,
                    file |-> objs[images[k]].file]]
    IN  IF onlyLabeled THEN SelectSeq(all, LAMBDA e : e.label # NoLabel) ELSE all

\* the keys of byLabel, in insertion order
LabelsOf(entries) ==
    LET labelled == SelectSeq(entries, LAMBDA e : e.label # NoLabel)
    IN  Distinct([k \in 1..Len(labelled) |-> labelled[k].label])

\* the comparator of sortFrames: frame number, then file name
FrameLeq(a, b) ==
    IF a.frameNumber # b.frameNumber THEN a.frameNumber < b.frameNumber
    ELSE a.file <= b.file

\* the stable merge of two sorted frame lists: on a tie the frame of a goes first
RECURSIVE MergeFrames(_, _)
MergeFrames(a, b) ==
    IF a = <<>> THEN b
    ELSE IF b = <<>> THEN a
    ELSE IF FrameLeq(Last(a), Head(b)) THEN a \o b
    ELSE IF ~FrameLeq(Head(a), Last(b)) THEN b \o a
    ELSE LET m == (Len(a) + 1) \div 2
             b1 == SelectSeq(b, LAMBDA y : ~FrameLeq(a[m], y))
         IN  MergeFrames(SubSeq(a, 1, m - 1), b1)
             \o <<a[m]>>
             \o MergeFrames(SubSeq(a, m + 1, Len(a)), SubSeq(b, Len(b1) + 1, Len(b)))

\* frames.sort(...): Array.prototype.sort is stable
RECURSIVE sortFrames(_)
sortFrames(frames) ==
    IF Len(frames) <= 1 THEN frames
    ELSE LET m == Len(frames) \div 2
         IN  MergeFrames(sortFrames(SubSeq(frames, 1, m)),
                         sortFrames(SubSeq(frames, m + 1, Len(frames))))

\* byLabel.get(label).get(clipKey) after sortFrames
FramesOfClip(entries, label, clipKey) ==
    sortFrames(SelectSeq(entries, LAMBDA e : e.label = label /\ e.clipKey = clipKey))

RECURSIVE InsertClipKey(_, _)
InsertClipKey(x, s) ==
    IF s = <<>> THEN <<x>>
    ELSE IF ClipNameLeq(Last(s), x) THEN Append(s, x)
    ELSE Append(InsertClipKey(x, Front(s)), Last(s))

RECURSIVE SortClipKeys(_)
SortClipKeys(keys) ==
    IF keys = <<>> THEN <<>>
    ELSE InsertClipKey(Last(keys), SortClipKeys(Front(keys)))

\* Array.from(byClip.keys()).sort((a, b) => a.localeCompare(b))
SortedClipKeys(entries, label) ==
    LET mine == SelectSeq(entries, LAMBDA e : e.label = label)
    IN  SortClipKeys(Distinct([k \in 1..Len(mine) |-> mine[k].clipKey]))

\* frameChunks, mutated: slices of one frame more
RECURSIVE FrameChunksMutant(_)
FrameChunksMutant(frames) ==
    IF frames = <<>> THEN <<>>
    ELSE IF Len(frames) <= MAX_FRAMES_PER_CLIP + 1 THEN <<frames>>
    ELSE <<SubSeq(frames, 1, MAX_FRAMES_PER_CLIP + 1)>>
         \o FrameChunksMutant(SubSeq(frames, MAX_FRAMES_PER_CLIP + 2, Len(frames)))

\* frameChunks: the frames of one clip in slices of at most MAX_FRAMES_PER_CLIP
RECURSIVE FrameChunks(_)
FrameChunks(frames) ==
    IF frames = <<>> THEN <<>>
    ELSE IF Len(frames) <= MAX_FRAMES_PER_CLIP THEN <<frames>>
    ELSE <<SubSeq(frames, 1, MAX_FRAMES_PER_CLIP)>>
         \o FrameChunks(SubSeq(frames, MAX_FRAMES_PER_CLIP + 1, Len(frames)))

\* const clipNumber = currentClipOffset + totalClipsForLabel
ClipNumberMutant(currentClipOffset, totalClipsForLabel) ==
    currentClipOffset + totalClipsForLabel - 1

ClipNumber(currentClipOffset, totalClipsForLabel) ==
    currentClipOffset + totalClipsForLabel

\* the clip folders of one clip of one label: one per frame chunk
ClipFolders(label, clipKey, chunks, currentClipOffset, totalBefore) ==
    [c \in 1..Len(chunks) |->
        [label |-> label,
         clipNumber |-> ClipNumber(currentClipOffset, totalBefore + c),
         sourceClip |-> clipKey,
         chunkIndex |-> c - 1,
         firstFile |-> chunks[c][1].file,
         frames |-> Len(chunks[c])]]

\* the loop over clipKeys of one label
RECURSIVE LabelFolders(_, _, _, _, _)
LabelFolders(entries, label, clipKeys, currentClipOffset, totalBefore) ==
    IF clipKeys = <<>> THEN <<>>
    ELSE LET chunks == FrameChunks(FramesOfClip(entries, label, Head(clipKeys)))
         IN  ClipFolders(label, Head(clipKeys), chunks, currentClipOffset, totalBefore)
             \o LabelFolders(entries, label, Tail(clipKeys), currentClipOffset,
                             totalBefore + Len(chunks))

\* the loop over byLabel: the folders written and newClipCounters
RECURSIVE WriteLabels(_, _, _, _)
WriteLabels(entries, labels, newClipCounters, folders) ==
    IF labels = <<>> THEN [folders |-> folders, newClipCounters |-> newClipCounters]
    ELSE LET label == Head(labels)
             currentClipOffset == Counter(newClipCounters, label)
             mine == LabelFolders(entries, label, SortedClipKeys(entries, label),
                                  currentClipOffset, 0)
         IN  WriteLabels(entries, Tail(labels),
                         SetCounter(newClipCounters, label, currentClipOffset + Len(mine)),
                         folders \o mine)

\* the JSON files of one clip folder, mutated: activityLabel is that of the frame
JsonFilesOfFolderMutant(entries, f) ==
    LET chunk == FrameChunks(FramesOfClip(entries, f.label, f.sourceClip))[f.chunkIndex + 1]
    IN  [k \in 1..Len(chunk) |->
            [bucket |-> "labeld",
             folder |-> toSafePathSegment(f.label),
             clipNumber |-> f.clipNumber,
             baseName |-> k,
             activityLabel |-> objs[chunk[k].oid].activityLabel,
             frameNumber |-> chunk[k].frameNumber,
             file |-> chunk[k].file,
             oid |-> chunk[k].oid]]

\* the JSON files of one clip folder: frames00001.json, ... under
\* "<safeLabel> labeld"/<safeLabel><clipNumber>, each with activityLabel: label
\* and frameNumber: img.frameNumber; file is the picture of the JPG beside it
JsonFilesOfFolder(entries, f) ==
    LET chunk == FrameChunks(FramesOfClip(entries, f.label, f.sourceClip))[f.chunkIndex + 1]
    IN  [k \in 1..Len(chunk) |->
            [bucket |-> "labeld",
             folder |-> toSafePathSegment(f.label),
             clipNumber |-> f.clipNumber,
             baseName |-> k,
             activityLabel |-> f.label,
             frameNumber |-> chunk[k].frameNumber,
             file |-> chunk[k].file,
             oid |-> chunk[k].oid]]

RECURSIVE JsonFiles(_, _)
JsonFiles(entries, folders) ==
    IF folders = <<>> THEN <<>>
    ELSE JsonFilesOfFolder(entries, Head(folders)) \o JsonFiles(entries, Tail(folders))

\* the files of one clip of the bucket "Unlabeled": 00001.jpg, ...
UnlabeledFilesOfClip(entries, clipKey) ==
    LET fs == FramesOfClip(entries, NoLabel, clipKey)
    IN  [k \in 1..Len(fs) |->
            [bucket |-> "Unlabeled",
             folder |-> toSafePathSegment(clipKey),
             clipNumber |-> 0,
             baseName |-> k,
             activityLabel |-> NoLabel,
             frameNumber |-> fs[k].frameNumber,
             file |-> fs[k].file,
             oid |-> fs[k].oid]]

RECURSIVE UnlabeledFilesOfClips(_, _)
UnlabeledFilesOfClips(entries, clipKeys) ==
    IF clipKeys = <<>> THEN <<>>
    ELSE UnlabeledFilesOfClip(entries, Head(clipKeys))
         \o UnlabeledFilesOfClips(entries, Tail(clipKeys))

\* if (!exportOnlyLabeled && unlabeledByClip.size > 0): the bucket "Unlabeled"
UnlabeledFiles(entries, onlyLabeled) ==
    IF onlyLabeled THEN <<>>
    ELSE UnlabeledFilesOfClips(entries, SortedClipKeys(entries, NoLabel))

ExportSlots == 1..2

IdleExport ==
    [pc |-> "idle", onlyLabeled |-> TRUE, entries |-> <<>>, snapshot |-> EmptyCounters,
     folders |-> <<>>, files |-> <<>>, before |-> EmptyCounters, wrote |-> FALSE,
     reset |-> FALSE]

ExportRunning(p) == exports[p].pc \in {"writing", "zipping"}

InitExport ==
    /\ exportOnlyLabeled = TRUE
    /\ labelClipCounters = EmptyCounters
    /\ exports = [p \in ExportSlots |-> IdleExport]
    /\ exportsStarted = 0
    /\ lastExported = EmptyCounters

\* the button "Neu starten" of the counter display: setLabelClipCounters({})
ResetCounters ==
    /\ labelClipCounters' = EmptyCounters
    /\ lastExported' = EmptyCounters
    /\ exports' = [p \in ExportSlots |->
                      IF ExportRunning(p)
                      THEN [exports[p] EXCEPT !.before = EmptyCounters, !.reset = TRUE]
                      ELSE exports[p]]
    /\ UNCHANGED <<exportOnlyLabeled, exportsStarted>>

\* the button that toggles exportOnlyLabeled
ToggleExportOnlyLabeled ==
    /\ exportOnlyLabeled' = ~exportOnlyLabeled
    /\ UNCHANGED <<labelClipCounters, exports, exportsStarted, lastExported>>

\* the click on "Export" up to the first await: filter, group, sort; the call
\* is kept in the first slot that holds no running call.  With nothing to
\* export the call shows toast.error and returns: pc "rejected".
ExportStart(p) ==
    /\ ~ExportRunning(p)
    /\ \A q \in ExportSlots : q < p => ExportRunning(q)
    /\ Len(images) > 0
    /\ exportsStarted < MaxExports
    /\ exportsStarted' = exportsStarted + 1
    /\ LET entries == ImagesToExport(exportOnlyLabeled)
       IN  exports' = [exports EXCEPT ![p] =
                IF entries = <<>> THEN [IdleExport EXCEPT !.pc = "rejected"]
                ELSE [pc |-> "writing",
                      onlyLabeled |-> exportOnlyLabeled,
                      entries |-> entries,
                      snapshot |-> labelClipCounters,
                      folders |-> <<>>,
                      files |-> <<>>,
                      before |-> lastExported,
                      wrote |-> FALSE,
                      reset |-> FALSE]]
    /\ UNCHANGED <<exportOnlyLabeled, labelClipCounters, lastExported>>

\* the loop over the labels and setLabelClipCounters(newClipCounters)
ExportWriteLabels(p) ==
    /\ exports[p].pc = "writing"
    /\ LET e == exports[p]
           out == WriteLabels(e.entries, LabelsOf(e.entries), e.snapshot, <<>>)
       IN  /\ labelClipCounters' = out.newClipCounters
           /\ exports' = [exports EXCEPT ![p].pc = "zipping",
                                         ![p].entries = <<>>,
                                         ![p].folders = out.folders,
                                         ![p].files = JsonFiles(e.entries, out.folders)
                                                        \o UnlabeledFiles(e.entries, e.onlyLabeled),
                                         ![p].wrote = (out.newClipCounters # labelClipCounters)]
    /\ UNCHANGED <<exportOnlyLabeled, exportsStarted, lastExported>>

\* the ordinals an export gave to a label
OrdinalsOf(folders, label) ==
    {folders[k].clipNumber : k \in {j \in 1..Len(folders) : folders[j].label = label}}

FolderLabels(folders) == {folders[k].label : k \in 1..Len(folders)}

SetMax(S) == CHOOSE x \in S : \A y \in S : y <= x
SetMin(S) == CHOOSE x \in S : \A y \in S : x <= y

\* zip.generateAsync resolves and the archive is downloaded.  lastExported
\* keeps, per label, the ordinals of the last export that completed and that
\* no reset of the counters fell into.
ExportDone(p) ==
    /\ exports[p].pc = "zipping"
    /\ exports' = [exports EXCEPT ![p] = IdleExport]
    /\ lastExported' =
         IF exports[p].reset
         THEN [l \in DOMAIN lastExported \ FolderLabels(exports[p].folders) |-> lastExported[l]]
         ELSE [l \in DOMAIN lastExported \cup FolderLabels(exports[p].folders) |->
                 IF l \in FolderLabels(exports[p].folders)
                 THEN OrdinalsOf(exports[p].folders, l)
                 ELSE lastExported[l]]
    /\ UNCHANGED <<exportOnlyLabeled, labelClipCounters, exportsStarted>>

\* zip.generateAsync rejects: no archive is produced
ExportFail(p) ==
    /\ exports[p].pc = "zipping"
    /\ exports' = [exports EXCEPT ![p] = IdleExport]
    /\ UNCHANGED <<exportOnlyLabeled, labelClipCounters, exportsStarted, lastExported>>

\* handleReset ("Zurücksetzen"), shown while the store is non-empty
HandleReset ==
    /\ Len(images) > 0
    /\ objs' = Retain(<<>>)
    /\ images' = <<>>
    /\ currentIndex' = 0
    /\ selectedDetection' = NoSelection
    /\ selectedImages' = {}
    /\ isProcessing' = FALSE

(***************************************************************************)
(* The stores the export is checked on: the frames of up to MaxRuns of the *)
(* clips below, each clip labelled as a whole or not at all, of one frame  *)
(* or of one frame more than a clip folder takes.  The clip names are not  *)
(* in their sorted order.                                                  *)
(***************************************************************************)
Runs ==
    <<[sourceVideo |-> "clipB", activityLabel |-> "Grind", n |-> 1],
      [sourceVideo |-> "clipA", activityLabel |-> "Weld", n |-> MAX_FRAMES_PER_CLIP + 1],
      [sourceVideo |-> "clipA", activityLabel |-> NoLabel, n |-> 1],
      [sourceVideo |-> "clipB", activityLabel |-> "Weld", n |-> 1]>>

RECURSIVE RunsAt(_)
RunsAt(S) ==
    IF S = {} THEN <<>>
    ELSE LET m == CHOOSE x \in S : \A y \in S : x <= y
         IN  <<Runs[m]>> \o RunsAt(S \ {m})

RunSeqs == {RunsAt(S) : S \in {T \in SUBSET (1..Len(Runs)) : Cardinality(T) \in 1..MaxRuns}}

\* the frames of one clip as loadClips stores them, then labelled by the operator
RunFrames(run, firstFile) ==
    [k \in 1..run.n |->
        [file |-> firstFile + k - 1,
         sourceVideo |-> run.sourceVideo,
         frameNumber |-> k,
         activityLabel |-> run.activityLabel,
         detections |-> <<[cls |-> "person",
                           label |-> IF run.activityLabel = NoLabel THEN "Person"
                                     ELSE run.activityLabel]>>]]

RECURSIVE StoreOfRuns(_, _)
StoreOfRuns(runs, firstFile) ==
    IF runs = <<>> THEN <<>>
    ELSE RunFrames(Head(runs), firstFile)
         \o StoreOfRuns(Tail(runs), firstFile + Head(runs).n)

InitStoreOfRuns ==
    \E runs \in RunSeqs :
        LET frames == StoreOfRuns(runs, 1)
        IN  /\ objs = [o \in 1..Len(frames) |-> frames[o]]
            /\ images = [k \in 1..Len(frames) |-> k]
            /\ currentIndex = 0
            /\ selectedDetection = NoSelection
            /\ selectedImages = {}
            /\ isProcessing = FALSE

NextExport ==
    \/ \E p \in ExportSlots : ExportStart(p) /\ UNCHANGED <<ingestVars, samplingVars, clipVars, storeVars, opsVars, manualVars, annotateVars, detectVars>>
    \/ \E p \in ExportSlots : ExportWriteLabels(p) /\ UNCHANGED <<ingestVars, samplingVars, clipVars, storeVars, opsVars, manualVars, annotateVars, detectVars>>
    \/ \E p \in ExportSlots : ExportDone(p) /\ UNCHANGED <<ingestVars, samplingVars, clipVars, storeVars, opsVars, manualVars, annotateVars, detectVars>>
    \/ \E p \in ExportSlots : ExportFail(p) /\ UNCHANGED <<ingestVars, samplingVars, clipVars, storeVars, opsVars, manualVars, annotateVars, detectVars>>
    \/ ResetCounters /\ UNCHANGED <<ingestVars, samplingVars, clipVars, storeVars, opsVars, manualVars, annotateVars, detectVars>>
    \/ HandleReset /\ UNCHANGED <<ingestVars, samplingVars, clipVars, exportVars, opsVars, manualVars, annotateVars, detectVars>>
    \/ ApplyQuickLabel(quickLabelF) /\ UNCHANGED <<ingestVars, samplingVars, clipVars, exportVars, opsVars, manualVars, annotateVars, detectVars>>

(***************************************************************************)
(* Operator actions on the store.                                          *)
(***************************************************************************)
HandleNext ==
    /\ currentIndex < Len(images) - 1
    /\ currentIndex' = currentIndex + 1
    /\ selectedDetection' = NoSelection
    /\ UNCHANGED <<objs, images, selectedImages, isProcessing>>

HandlePrevious ==
    /\ currentIndex > 0
    /\ currentIndex' = currentIndex - 1
    /\ selectedDetection' = NoSelection
    /\ UNCHANGED <<objs, images, selectedImages, isProcessing>>

\* the space bar marks or un-marks the current frame
ToggleMark ==
    /\ Len(images) > 0
    /\ selectedImages' = IF currentIndex \in selectedImages
                         THEN selectedImages \ {currentIndex}
                         ELSE selectedImages \cup {currentIndex}
    /\ UNCHANGED <<objs, images, currentIndex, selectedDetection, isProcessing>>

\* images.filter((_, idx) => !selectedImages.has(idx)), mutated
WithoutMarkedMutant == SelectSeq([k \in 1..Len(images) |-> [oid |-> images[k], idx |-> k]],
                                 LAMBDA e : e.idx \notin selectedImages)

\* images.filter((_, idx) => !selectedImages.has(idx))
WithoutMarked == SelectSeq([k \in 1..Len(images) |-> [oid |-> images[k], idx |-> k - 1]],
                           LAMBDA e : e.idx \notin selectedImages)

\* the button that deletes the marked frames
DeleteMarked ==
    /\ selectedImages # {}
    /\ LET newImages == [k \in 1..Len(WithoutMarked) |-> WithoutMarked[k].oid]
       IN  /\ images' = newImages
           /\ objs' = Retain(newImages)
           /\ currentIndex' = IF currentIndex >= Len(newImages)
                              THEN (IF Len(newImages) - 1 > 0 THEN Len(newImages) - 1 ELSE 0)
                              ELSE currentIndex
    /\ selectedDetection' = NoSelection
    /\ selectedImages' = {}
    /\ UNCHANGED isProcessing

(***************************************************************************)
(* handleRedetect.  The handler keeps the array images of the render it    *)
(* was started in; between two awaits it runs without interruption.        *)
(***************************************************************************)
\* detections.map(d => d.label.toLowerCase() === "person" ? {...d, label: keepLabel} : d)
RelabelPersons(detections, keepLabel) ==
    IF keepLabel = "" THEN detections
    ELSE [k \in 1..Len(detections) |->
             IF ToLowerCase(detections[k].label) = "person"
             THEN [detections[k] EXCEPT !.label = keepLabel]
             ELSE detections[k]]

\* the click on "Neu erkennen" up to the first await: the label of the first
\* frame is read and detectObjects is called for it
RedetectStart ==
    /\ ~isProcessing
    /\ redetect.pc = "idle"
    /\ Len(images) > 0
    /\ isProcessing' = TRUE
    /\ redetect' = [pc |-> "detect",
                    images |-> images,
                    i |-> 0,
                    keepLabel |-> Trim(objs[images[1]].activityLabel),
                    newImages |-> <<>>,
                    before |-> [k \in 1..Len(images) |-> objs[images[k]].activityLabel]]
    /\ UNCHANGED <<objs, images, currentIndex, selectedDetection, selectedImages>>

\* newImages.push({...img, detections}) with the frame as it is now
RedetectPushed(detections) ==
    LET img == objs[redetect.images[redetect.i + 1]]
    IN  Append(redetect.newImages,
               [img EXCEPT !.detections = RelabelPersons(detections, redetect.keepLabel)])

\* detectObjects resolves for a frame that is not the last: the new frame is
\* pushed, the label of the next frame is read and detectObjects is called
RedetectNext(detections) ==
    /\ redetect.pc = "detect"
    /\ redetect.i + 1 < Len(redetect.images)
    /\ redetect' = [redetect EXCEPT
                      !.i = @ + 1,
                      !.keepLabel = Trim(objs[redetect.images[redetect.i + 2]].activityLabel),
                      !.newImages = RedetectPushed(detections)]
    /\ UNCHANGED storeVars

\* detectObjects resolves for the last frame: the new frame is pushed and
\* setImages(newImages) makes the new frames, which are new objects, the store;
\* nothing refers to the old frame objects any more
RedetectLast(detections) ==
    /\ redetect.pc = "detect"
    /\ redetect.i + 1 = Len(redetect.images)
    /\ LET newImages == RedetectPushed(detections)
       IN  /\ images' = [k \in 1..Len(newImages) |-> k]
           /\ objs' = [o \in 1..Len(newImages) |-> newImages[o]]
    /\ redetect' = IdleRedetect
    /\ selectedDetection' = NoSelection
    /\ isProcessing' = FALSE
    /\ UNCHANGED <<currentIndex, selectedImages>>

\* what detectObjects resolves with when the operator detects anew
RedetectOutputs ==
    {<<>>,
     <<Detection("car", SharpSentinel), Detection("person", blurThreshold - 1)>>,
     <<Detection("person", blurThreshold)>>}

(***************************************************************************)
(* The stores the store operations are checked on: up to MaxStoreFrames    *)
(* frames of one clip, each with a person on it, labelled or not.          *)
(***************************************************************************)
LabelledFrame(k, label) ==
    [file |-> k,
     sourceVideo |-> "clipA",
     frameNumber |-> k,
     activityLabel |-> label,
     detections |-> <<[Detection("person", SharpSentinel) EXCEPT
                         !.label = IF label = NoLabel THEN "Person" ELSE label]>>]

InitStoreLabelled ==
    \E n \in 1..MaxStoreFrames :
        \E labels \in [1..n -> {NoLabel, "Weld"}] :
            /\ objs = [o \in 1..n |-> LabelledFrame(o, labels[o])]
            /\ images = [k \in 1..n |-> k]
            /\ currentIndex = 0
            /\ selectedDetection = NoSelection
            /\ selectedImages = {}
            /\ isProcessing = FALSE

NextStore ==
    \/ RedetectStart /\ UNCHANGED <<ingestVars, samplingVars, clipVars, exportVars, manualVars, annotateVars, detectVars>>
    \/ \E detections \in RedetectOutputs :
          RedetectNext(detections) /\ UNCHANGED <<ingestVars, samplingVars, clipVars, exportVars, manualVars, annotateVars, detectVars>>
    \/ \E detections \in RedetectOutputs :
          RedetectLast(detections) /\ UNCHANGED <<ingestVars, samplingVars, clipVars, exportVars, manualVars, annotateVars, detectVars>>
    \/ ApplyQuickLabel(quickLabelF) /\ UNCHANGED <<ingestVars, samplingVars, clipVars, exportVars, opsVars, manualVars, annotateVars, detectVars>>
    \/ HandleReset /\ UNCHANGED <<ingestVars, samplingVars, clipVars, exportVars, opsVars, manualVars, annotateVars, detectVars>>
    \/ HandleNext /\ UNCHANGED <<ingestVars, samplingVars, clipVars, exportVars, opsVars, manualVars, annotateVars, detectVars>>
    \/ HandlePrevious /\ UNCHANGED <<ingestVars, samplingVars, clipVars, exportVars, opsVars, manualVars, annotateVars, detectVars>>
    \/ ToggleMark /\ UNCHANGED <<ingestVars, samplingVars, clipVars, exportVars, opsVars, manualVars, annotateVars, detectVars>>
    \/ DeleteMarked /\ UNCHANGED <<ingestVars, samplingVars, clipVars, exportVars, opsVars, manualVars, annotateVars, detectVars>>

(***************************************************************************)
(* handleLoadClipsToAnnotator.  The handler reads clips, filterMotionBlur  *)
(* and blurThreshold from the render it was started in.  Every clip these *)
(* checks load has at least one frame.                                     *)
(***************************************************************************)
\* the clips of the model: name, origin and number of frames
ClipShapes ==
    <<[name |-> "clipB", isManual |-> TRUE, n |-> 2],
      [name |-> "clipA", isManual |-> FALSE, n |-> 2],
      [name |-> "clipC", isManual |-> TRUE, n |-> 1],
      [name |-> "clipD", isManual |-> FALSE, n |-> 1]>>

RECURSIVE ShapesAt(_)
ShapesAt(S) ==
    IF S = {} THEN <<>>
    ELSE LET m == CHOOSE x \in S : \A y \in S : x <= y
         IN  <<ClipShapes[m]>> \o ShapesAt(S \ {m})

ShapeSeqs == {ShapesAt(S) : S \in {T \in SUBSET (1..Len(ClipShapes)) : Cardinality(T) \in 1..MaxClips}}

\* the clips with their frames; the pictures follow the pattern from picture
\* number first on
RECURSIVE ClipsOf(_, _, _)
ClipsOf(shapes, pattern, first) ==
    IF shapes = <<>> THEN <<>>
    ELSE <<[name |-> Head(shapes).name,
            isManual |-> Head(shapes).isManual,
            frames |-> [k \in 1..Head(shapes).n |->
                           [file |-> first + k,
                            frameNumber |-> k,
                            picture |-> PictureOf(pattern, first + k - 1)]]]>>
         \o ClipsOf(Tail(shapes), pattern, first + Head(shapes).n)

IdleLoadClips ==
    [pc |-> "idle", runs |-> 0, clips |-> <<>>, j |-> 0, allImages |-> <<>>,
     blurryIndices |-> <<>>]

InitIngestOff ==
    /\ clips = <<>>
    /\ filterMotionBlur = TRUE
    /\ loadClips = IdleLoadClips

\* for (const clip of clips) for (const frame of clip.frames): the pairs the
\* two loops go through
RECURSIVE FlatFrames(_)
FlatFrames(cl) ==
    IF cl = <<>> THEN <<>>
    ELSE [k \in 1..Len(Head(cl).frames) |-> [clip |-> Head(cl), frame |-> Head(cl).frames[k]]]
         \o FlatFrames(Tail(cl))

\* the clip and the frame the loops are at
CurrentEntry == FlatFrames(loadClips.clips)[loadClips.j]

\* the click on "Clips laden" up to the first await
LoadClipsStart ==
    /\ loadClips.pc = "idle"
    /\ ~isProcessing
    /\ Len(clips) > 0
    /\ IngestsStarted < MaxIngests
    /\ isProcessing' = TRUE
    /\ loadClips' = [pc |-> "detect", runs |-> loadClips.runs + 1, clips |-> clips, j |-> 1,
                     allImages |-> <<>>, blurryIndices |-> <<>>]
    /\ UNCHANGED <<clips, filterMotionBlur, objs, images, currentIndex, selectedDetection,
                   selectedImages>>

\* the frame object handleLoadClipsToAnnotator builds
ClipFrame(entry, personDetections) ==
    [file |-> entry.frame.file,
     sourceVideo |-> entry.clip.name,
     frameNumber |-> entry.frame.frameNumber,
     activityLabel |-> NoLabel,
     detections |-> personDetections]

\* the rest of the loop body, with the frame pushed (keep) and its index
\* recorded (blurry) or not, and then either the next frame up to its first
\* await or the end of the handler
LoadClipsPush(keep, blurry, personDetections) ==
    LET currentFrameIndex == Len(loadClips.allImages)
        newBlurryIndices == IF keep /\ blurry
                            THEN Append(loadClips.blurryIndices, currentFrameIndex)
                            ELSE loadClips.blurryIndices
        newAllImages == IF keep THEN Append(loadClips.allImages, FreshOid)
                        ELSE loadClips.allImages
        heap == IF keep THEN WithObject(objs, FreshOid, ClipFrame(CurrentEntry, personDetections))
                ELSE objs
    IN  IF loadClips.j < Len(FlatFrames(loadClips.clips))
        THEN /\ loadClips' = [loadClips EXCEPT !.pc = "detect",
                                               !.j = @ + 1,
                                               !.allImages = newAllImages,
                                               !.blurryIndices = newBlurryIndices]
             /\ objs' = heap
             /\ UNCHANGED <<images, currentIndex, selectedDetection, selectedImages,
                            isProcessing>>
        ELSE /\ images' = newAllImages
             /\ objs' = [o \in DOMAIN heap \cap (Range(newAllImages) \cup HeldByRedetect
                                                  \cup HeldByUpload) |-> heap[o]]
             /\ selectedImages' = Range(newBlurryIndices)
             /\ currentIndex' = 0
             /\ selectedDetection' = NoSelection
             /\ isProcessing' = FALSE
             /\ loadClips' = [IdleLoadClips EXCEPT !.runs = loadClips.runs,
                                                  !.clips = loadClips.clips]

\* detectObjects resolves for a frame: the frame of a manual clip is pushed
\* whatever was detected; for the frame of an automatic clip detectObjects is
\* called once more
LoadClipsDetect ==
    /\ loadClips.pc = "detect"
    /\ LET detections == CurrentEntry.frame.picture
           personDetections == PersonsOf(detections)
       IN  IF CurrentEntry.clip.isManual
           THEN LoadClipsPush(TRUE,
                              filterMotionBlur /\ Len(personDetections) > 0
                                  /\ AllBlurry(personDetections),
                              personDetections)
           ELSE /\ loadClips' = [loadClips EXCEPT !.pc = "detectAgain"]
                /\ UNCHANGED storeVars
    /\ UNCHANGED <<clips, filterMotionBlur>>

\* the second detectObjects for the frame of an automatic clip resolves, with
\* the same detections as the picture is the same: the frame is pushed if a
\* person was detected
LoadClipsDetectAgain ==
    /\ loadClips.pc = "detectAgain"
    /\ LET detections == CurrentEntry.frame.picture
           personDetections == PersonsOf(detections)
       IN  LoadClipsPush(Len(personDetections) > 0,
                         filterMotionBlur /\ AllBlurry(personDetections),
                         personDetections)
    /\ UNCHANGED <<clips, filterMotionBlur>>

(***************************************************************************)
(* The ingestions the ingestion is checked on: a video of up to two        *)
(* chunks at the longest frame interval, uploaded once or several times    *)
(* together, or up to MaxClips clips; the store is empty before.           *)
(***************************************************************************)
\* the store before the ingestion: empty, or one frame of an earlier ingestion
InitStoreBefore ==
    \E n \in 0..1 :
        /\ objs = [o \in 1..n |-> LabelledFrame(o, NoLabel)]
        /\ images = [k \in 1..n |-> k]
        /\ currentIndex = 0
        /\ selectedDetection = NoSelection
        /\ selectedImages = {}
        /\ isProcessing = FALSE

InitIngest ==
    /\ scene \in Scenes
    /\ filterMotionBlur \in BOOLEAN
    /\ frameInterval = MaxFrameIntervalSeconds * TicksPerSecond
    /\ chunkDuration = 1
    /\ \/ /\ clips = <<>>
          /\ duration \in {2 * frameInterval, MaxDuration}
       \/ /\ \E shapes \in ShapeSeqs : clips = ClipsOf(shapes, scene, 0)
          /\ duration = 0
    /\ loadClips = IdleLoadClips
    /\ upload = IdleUpload
    /\ SamplingIdle

NextIngest ==
    \/ \E n \in 1..MaxFiles :
          VideoUploadStart(n) /\ UNCHANGED <<ingestVars, clipVars, exportVars, opsVars, manualVars, annotateVars, detectVars>>
    \/ ProcessVideo /\ UNCHANGED <<ingestVars, clipVars, exportVars, opsVars, manualVars, annotateVars, detectVars>>
    \/ ChunkBegin /\ UNCHANGED <<ingestVars, clipVars, exportVars, opsVars, manualVars, annotateVars, detectVars>>
    \/ ChunkSeek /\ UNCHANGED <<ingestVars, clipVars, exportVars, opsVars, manualVars, annotateVars, detectVars>>
    \/ ChunkEnd /\ UNCHANGED <<ingestVars, clipVars, exportVars, opsVars, manualVars, annotateVars, detectVars>>
    \/ ChunkFail /\ UNCHANGED <<ingestVars, clipVars, exportVars, opsVars, manualVars, annotateVars, detectVars>>
    \/ VideoResolve /\ UNCHANGED <<ingestVars, clipVars, exportVars, opsVars, manualVars, annotateVars, detectVars>>
    \/ VideoUploadNextFile /\ UNCHANGED <<ingestVars, clipVars, exportVars, opsVars, manualVars, annotateVars, detectVars>>
    \/ VideoUploadFinish /\ UNCHANGED <<ingestVars, clipVars, exportVars, opsVars, manualVars, annotateVars, detectVars>>
    \/ LoadClipsStart /\ UNCHANGED <<samplingVars, clipVars, exportVars, opsVars, manualVars, annotateVars, detectVars>>
    \/ LoadClipsDetect /\ UNCHANGED <<samplingVars, clipVars, exportVars, opsVars, manualVars, annotateVars, detectVars>>
    \/ LoadClipsDetectAgain /\ UNCHANGED <<samplingVars, clipVars, exportVars, opsVars, manualVars, annotateVars, detectVars>>
    \/ ToggleMark /\ UNCHANGED <<ingestVars, samplingVars, clipVars, exportVars, opsVars, manualVars, annotateVars, detectVars>>
    \/ DeleteMarked /\ UNCHANGED <<ingestVars, samplingVars, clipVars, exportVars, opsVars, manualVars, annotateVars, detectVars>>
    \/ HandleReset /\ UNCHANGED <<ingestVars, samplingVars, clipVars, exportVars, opsVars, manualVars, annotateVars, detectVars>>


(***************************************************************************)
(* The stores the labelling and the files of the export are checked on: up *)
(* to MaxStoreFrames frames of two clips, as ingestion, quick labels and   *)
(* the inline edit of a detection label leave them.                        *)
(***************************************************************************)
\* the frames by kind: fresh from the detector, quick-labelled, with a
\* detection the operator renamed, and without any detection
FrameKinds ==
    <<[activityLabel |-> NoLabel,
       detections |-> <<Detection("person", SharpSentinel)>>],
      [activityLabel |-> "Weld",
       detections |-> <<[Detection("person", SharpSentinel) EXCEPT !.label = "Weld"]>>],
      [activityLabel |-> NoLabel,
       detections |-> <<Detection("person", SharpSentinel),
                        [Detection("person", blurThreshold) EXCEPT !.label = "Grind"]>>],
      [activityLabel |-> NoLabel, detections |-> <<>>]>>

KindFrame(k, kind) ==
    [file |-> k,
     sourceVideo |-> IF k = 1 THEN "clipB" ELSE "clipA",
     frameNumber |-> k,
     activityLabel |-> FrameKinds[kind].activityLabel,
     detections |-> FrameKinds[kind].detections]

InitStoreOfKinds ==
    \E n \in 1..MaxStoreFrames :
        \E kinds \in [1..n -> 1..Len(FrameKinds)] :
            /\ objs = [o \in 1..n |-> KindFrame(o, kinds[o])]
            /\ images = [k \in 1..n |-> k]
            /\ currentIndex = 0
            /\ selectedDetection = NoSelection
            /\ selectedImages = {}
            /\ isProcessing = FALSE

\* the stores as ingestion leaves them: each frame with the person the
\* detector found on it, or without a detection
InitStoreFresh ==
    \E n \in 1..MaxStoreFrames :
        \E kinds \in [1..n -> {1, Len(FrameKinds)}] :
            /\ objs = [o \in 1..n |-> KindFrame(o, kinds[o])]
            /\ images = [k \in 1..n |-> k]
            /\ currentIndex = 0
            /\ selectedDetection = NoSelection
            /\ selectedImages = {}
            /\ isProcessing = FALSE

\* the labels on the keys and buttons F, G and H
QuickLabels == {quickLabelF, quickLabelG, quickLabelH}

\* the buttons of the quick labels (applyQuickLabel of the current render);
\* in these checks the operator labels and moves while no export is running:
\* an export groups the frames before its first await
LabelButton(label) ==
    /\ \A p \in ExportSlots : ~ExportRunning(p)
    /\ ApplyQuickLabel(label)

NextButton ==
    /\ \A p \in ExportSlots : ~ExportRunning(p)
    /\ HandleNext

NextLabels ==
    \/ \E p \in ExportSlots : ExportStart(p) /\ UNCHANGED <<ingestVars, samplingVars, clipVars, storeVars, opsVars, manualVars, annotateVars, detectVars>>
    \/ \E p \in ExportSlots : ExportWriteLabels(p) /\ UNCHANGED <<ingestVars, samplingVars, clipVars, storeVars, opsVars, manualVars, annotateVars, detectVars>>
    \/ \E p \in ExportSlots : ExportDone(p) /\ UNCHANGED <<ingestVars, samplingVars, clipVars, storeVars, opsVars, manualVars, annotateVars, detectVars>>
    \/ ToggleExportOnlyLabeled /\ UNCHANGED <<ingestVars, samplingVars, clipVars, storeVars, opsVars, manualVars, annotateVars, detectVars>>
    \/ \E label \in QuickLabels :
          LabelButton(label) /\ UNCHANGED <<ingestVars, samplingVars, clipVars, exportVars, opsVars, manualVars, annotateVars, detectVars>>
    \/ NextButton /\ UNCHANGED <<ingestVars, samplingVars, clipVars, exportVars, opsVars, manualVars, annotateVars, detectVars>>

(***************************************************************************)
(* The keys F, G and H, batch labelling and the deletion of a range.  The  *)
(* keydown handler is registered by an effect that runs again only when    *)
(* currentIndex, images.length, selectedDetection, a quick label or the    *)
(* tab changes: until then the registered handler calls the                *)
(* applyQuickLabel of the render it was registered in, with the images and *)
(* the selectedImages of that render.  The other specifications press no   *)
(* key F, G or H and leave keyHandler alone.                               *)
(***************************************************************************)
IdleBatch ==
    [pc |-> "idle", clicks |-> 0, from |-> 0, to |-> 0, label |-> NoLabel,
     newImages |-> <<>>, i |-> 0, before |-> <<>>]

InitAnnotateOff ==
    /\ keyHandler = [images |-> <<>>, selectedImages |-> {}]
    /\ batch = IdleBatch

\* the handler registered after the render that showed the store
InitAnnotate ==
    /\ keyHandler = [images |-> images, selectedImages |-> selectedImages]
    /\ batch = IdleBatch

\* the effect of the keydown handler after the render that follows a step
KeyEffect ==
    keyHandler' =
        IF <<currentIndex', Len(images'), selectedDetection'>>
              = <<currentIndex, Len(images), selectedDetection>>
        THEN keyHandler
        ELSE [images |-> images', selectedImages |-> selectedImages']

\* the keys F, G and H: applyQuickLabel of the render the handler was
\* registered in; currentIndex is that of the current render, as every
\* change of it registers the handler anew
KeyQuickLabel(label) ==
    /\ Len(keyHandler.images) > 0
    /\ currentIndex < Len(keyHandler.images)
    /\ objs' = [objs EXCEPT ![keyHandler.images[currentIndex + 1]] =
                   [@ EXCEPT !.activityLabel = label,
                             !.detections = [k \in 1..Len(@) |-> [@[k] EXCEPT !.label = label]]]]
    /\ images' = keyHandler.images
    /\ selectedImages' = IF currentIndex \in keyHandler.selectedImages
                         THEN selectedImages \ {currentIndex}
                         ELSE selectedImages
    /\ UNCHANGED <<currentIndex, selectedDetection, isProcessing>>

\* parseInt of an empty input field, less one: NaN, here a number that no
\* field can hold
NaN == -1000

\* from < 0 || to >= images.length || from > to, mutated
BatchRangeInvalidMutant(from, to) == from < 0 \/ to >= Len(images)

\* from < 0 || to >= images.length || from > to
BatchRangeInvalid(from, to) == from < 0 \/ to >= Len(images) \/ from > to

\* the three early returns of the batch button
BatchRejects(from, to, label) ==
    \/ from = NaN \/ to = NaN
    \/ label = ""
    \/ BatchRangeInvalid(from, to)

\* the frame with the label on it and on each of its detections
Relabelled(frame, label) ==
    [frame EXCEPT !.activityLabel = label,
                  !.detections = [k \in 1..Len(@) |-> [@[k] EXCEPT !.label = label]]]

\* the loop of the batch button from frame i up to its next await or its
\* end: the frame objects are changed in place
RECURSIVE BatchRun(_, _, _, _, _)
BatchRun(heap, newImages, i, to, label) ==
    IF i > to THEN [heap |-> heap, i |-> i, done |-> TRUE]
    ELSE LET o == newImages[i + 1]
         IN  IF Len(heap[o].detections) = 0
             THEN [heap |-> [heap EXCEPT ![o].activityLabel = label], i |-> i, done |-> FALSE]
             ELSE BatchRun([heap EXCEPT ![o] = Relabelled(@, label)], newImages, i + 1, to, label)

\* the batch either waits for detectObjects or ends with setImages(newImages)
BatchContinue(run, b) ==
    /\ objs' = run.heap
    /\ IF run.done
       THEN /\ images' = b.newImages
            /\ isProcessing' = FALSE
            /\ batch' = [b EXCEPT !.pc = "done", !.i = run.i]
       ELSE /\ images' = images
            /\ isProcessing' = TRUE
            /\ batch' = [b EXCEPT !.pc = "detect", !.i = run.i]
    /\ UNCHANGED <<currentIndex, selectedDetection, selectedImages>>

\* the click on the batch button; before is not in the source: it keeps the
\* frames as they were at the click
BatchLabelClick(from, to, label) ==
    /\ ~isProcessing
    /\ batch.pc # "detect"
    /\ batch.clicks < MaxBatchClicks
    /\ LET b == [pc |-> "idle", clicks |-> batch.clicks + 1, from |-> from, to |-> to,
                 label |-> label, newImages |-> images, i |-> 0,
                 before |-> [k \in 1..Len(images) |-> objs[images[k]]]]
       IN  IF BatchRejects(from, to, label)
           THEN /\ batch' = [b EXCEPT !.pc = "rejected", !.newImages = <<>>, !.before = <<>>]
                /\ UNCHANGED storeVars
           ELSE BatchContinue(BatchRun(objs, images, from, to, label), b)

\* detectObjects resolves for frame i: the persons get the label, and the
\* loop goes on
BatchDetected(detections) ==
    /\ batch.pc = "detect"
    /\ LET o == batch.newImages[batch.i + 1]
           persons == PersonsOf(detections)
           heap == [objs EXCEPT ![o].detections =
                       [k \in 1..Len(persons) |-> [persons[k] EXCEPT !.label = batch.label]]]
       IN  BatchContinue(BatchRun(heap, batch.newImages, batch.i + 1, batch.to, batch.label),
                         batch)

\* newImages.splice(from, to - from + 1)
Spliced(s, from, to) ==
    [k \in 1..(Len(s) - (to - from + 1)) |-> IF k <= from THEN s[k] ELSE s[k + (to - from + 1)]]

\* the button that deletes a range of frames; with NaN or an invalid range
\* it returns after its notification
DeleteRange(from, to) ==
    /\ ~BatchRangeInvalid(from, to)
    /\ LET newImages == Spliced(images, from, to)
       IN  /\ images' = newImages
           /\ objs' = Retain(newImages)
           /\ currentIndex' = IF currentIndex >= Len(newImages)
                              THEN (IF Len(newImages) - 1 > 0 THEN Len(newImages) - 1 ELSE 0)
                              ELSE currentIndex
    /\ selectedDetection' = NoSelection
    /\ UNCHANGED <<selectedImages, isProcessing>>

\* what the operator can type into the fields of a range, less one
RangeInputs == ((-1)..MaxStoreFrames) \cup {NaN}

\* what the operator can pick in the label select of the batch
BatchLabels == ActivityLabels \cup {""}

NextAnnotate ==
    \/ \E label \in {quickLabelF, quickLabelG} :
          KeyQuickLabel(label) /\ KeyEffect /\ UNCHANGED <<batch, ingestVars, samplingVars, clipVars, exportVars, opsVars, manualVars, detectVars>>
    \/ ApplyQuickLabel(quickLabelF) /\ KeyEffect /\ UNCHANGED <<batch, ingestVars, samplingVars, clipVars, exportVars, opsVars, manualVars, detectVars>>
    \/ ToggleMark /\ KeyEffect /\ UNCHANGED <<batch, ingestVars, samplingVars, clipVars, exportVars, opsVars, manualVars, detectVars>>
    \/ HandleNext /\ KeyEffect /\ UNCHANGED <<batch, ingestVars, samplingVars, clipVars, exportVars, opsVars, manualVars, detectVars>>
    \/ HandlePrevious /\ KeyEffect /\ UNCHANGED <<batch, ingestVars, samplingVars, clipVars, exportVars, opsVars, manualVars, detectVars>>
    \/ DeleteMarked /\ KeyEffect /\ UNCHANGED <<batch, ingestVars, samplingVars, clipVars, exportVars, opsVars, manualVars, detectVars>>
    \/ \E from \in 0..(MaxStoreFrames - 1), to \in 0..(MaxStoreFrames - 1) :
          DeleteRange(from, to) /\ KeyEffect /\ UNCHANGED <<batch, ingestVars, samplingVars, clipVars, exportVars, opsVars, manualVars, detectVars>>
    \/ \E from \in RangeInputs, to \in RangeInputs, label \in BatchLabels :
          BatchLabelClick(from, to, label) /\ KeyEffect /\ UNCHANGED <<ingestVars, samplingVars, clipVars, exportVars, opsVars, manualVars, detectVars>>
    \/ \E detections \in RedetectOutputs :
          BatchDetected(detections) /\ KeyEffect /\ UNCHANGED <<ingestVars, samplingVars, clipVars, exportVars, opsVars, manualVars, detectVars>>

(***************************************************************************)
(* The manual clip editor (ManualClipEditor: handleTimelineClick,          *)
(* updateMarker, deleteMarker, extractClipsFromMarkers).  A marker is a    *)
(* pair of times of the clip video, in ticks; its id is its place in       *)
(* markers.  extractClipsFromMarkers reads markers and frameInterval (the  *)
(* annotator's clipFrameInterval) from the render it was started in, so    *)
(* the markers are set before the extraction starts.                       *)
(***************************************************************************)
Max(a, b) == IF a >= b THEN a ELSE b

\* pendingMarkerStart === null
NoPending == -1

\* the times the operator clicks and types
MarkerTimes == {0, 1, MAX_FRAMES_PER_CLIP + 1, markerVideoDuration}

IdleExtract ==
    [pc |-> "idle", runs |-> 0, markers |-> <<>>, markerIdx |-> 0,
     frameTimes |-> <<>>, allFrames |-> <<>>, clips |-> <<>>]

InitManualOff ==
    /\ markerVideoDuration = 0
    /\ markers = <<>>
    /\ pendingMarkerStart = NoPending
    /\ extract = IdleExtract

InitManual ==
    /\ markerVideoDuration = MaxMarkerTicks
    /\ markers = <<>>
    /\ pendingMarkerStart = NoPending
    /\ extract = IdleExtract

\* [...prev, newMarker].sort((a, b) => a.startTime - b.startTime): the sort
\* is stable, the new marker goes behind those that start no later
RECURSIVE SortMarkers(_)
SortMarkers(ms) ==
    IF Len(ms) <= 1 THEN ms
    ELSE LET sorted == SortMarkers(Front(ms))
             m == Last(ms)
             before == SelectSeq(sorted, LAMBDA x : x.startTime <= m.startTime)
             after == SelectSeq(sorted, LAMBDA x : x.startTime > m.startTime)
         IN  before \o <<m>> \o after

\* handleTimelineClick (and handleSpaceMarker, which does the same with the
\* snapped time of the video): the first click sets the start, the second
\* one creates the marker
TimelineClick(clickedTime) ==
    /\ markerVideoDuration # 0
    /\ extract.runs = 0
    /\ Len(markers) < MaxMarkers
    /\ IF pendingMarkerStart = NoPending
       THEN /\ pendingMarkerStart' = clickedTime
            /\ UNCHANGED markers
       ELSE LET start == Min(pendingMarkerStart, clickedTime)
                end == Max(pendingMarkerStart, clickedTime)
            IN  /\ pendingMarkerStart' = NoPending
                /\ IF end - start < 1
                   THEN UNCHANGED markers
                   ELSE markers' = SortMarkers(Append(markers,
                                       [startTime |-> start, endTime |-> end]))
    /\ UNCHANGED <<markerVideoDuration, extract>>

\* handleSpaceMarker: the space bar does what a click on the timeline does,
\* with the snapped time of the video in place of the clicked time
HandleSpaceMarker(snappedTime) == TimelineClick(snappedTime)

\* updateMarker(id, field, value) on one marker
UpdatedMarker(m, field, value) ==
    LET clamped == Max(0, Min(value, markerVideoDuration))
        updated == IF field = "startTime" THEN [m EXCEPT !.startTime = clamped]
                   ELSE [m EXCEPT !.endTime = clamped]
    IN  IF updated.startTime >= updated.endTime
        THEN IF field = "startTime"
             THEN [updated EXCEPT !.endTime =
                      Min(updated.startTime + TicksPerSecond, markerVideoDuration)]
             ELSE [updated EXCEPT !.startTime =
                      Max(updated.endTime - TicksPerSecond, 0)]
        ELSE updated

UpdateMarker(i, field, value) ==
    /\ extract.runs = 0
    /\ i \in 1..Len(markers)
    /\ markers' = [markers EXCEPT ![i] = UpdatedMarker(markers[i], field, value)]
    /\ UNCHANGED <<markerVideoDuration, pendingMarkerStart, extract>>

\* deleteMarker(id)
DeleteMarker(i) ==
    /\ extract.runs = 0
    /\ i \in 1..Len(markers)
    /\ markers' = [k \in 1..(Len(markers) - 1) |->
                      IF k < i THEN markers[k] ELSE markers[k + 1]]
    /\ UNCHANGED <<markerVideoDuration, pendingMarkerStart, extract>>

\* extractClipsFromMarkers up to the marker loop; the button is disabled
\* while isExtracting or with a pending start
ExtractStart ==
    /\ extract.pc = "idle"
    /\ extract.runs < MaxExtractions
    /\ pendingMarkerStart = NoPending
    /\ markerVideoDuration # 0
    /\ Len(markers) # 0
    /\ extract' = [IdleExtract EXCEPT !.pc = "marker", !.runs = extract.runs + 1,
                                      !.markers = markers]
    /\ UNCHANGED <<markerVideoDuration, markers, pendingMarkerStart, clips>>

\* for (let t = marker.startTime; t < marker.endTime; t += frameInterval)
FrameTimes(marker, interval) ==
    [k \in 1..Ceil(Max(marker.endTime - marker.startTime, 0), interval) |->
        marker.startTime + (k - 1) * interval]

\* the head of the marker loop: the frame times of the next marker
MarkerBegin ==
    /\ extract.pc = "marker"
    /\ extract.markerIdx < Len(extract.markers)
    /\ extract' = [extract EXCEPT
          !.pc = "frames",
          !.frameTimes = FrameTimes(extract.markers[extract.markerIdx + 1],
                                    clipFrameInterval),
          !.allFrames = <<>>]
    /\ UNCHANGED <<markerVideoDuration, markers, pendingMarkerStart, clips>>

\* one pass of the frame loop: seek, draw, toBlob, push; file stands for the
\* file name, which is made of frameNumber
MarkerSeek ==
    /\ extract.pc = "frames"
    /\ Len(extract.allFrames) < Len(extract.frameTimes)
    /\ LET frameIdx == Len(extract.allFrames)
           frameNumber == frameIdx + 1
       IN  extract' = [extract EXCEPT !.allFrames = Append(@,
               [file |-> frameNumber, time |-> extract.frameTimes[frameIdx + 1],
                frameNumber |-> frameNumber])]
    /\ UNCHANGED <<markerVideoDuration, markers, pendingMarkerStart, clips>>

\* allFrames.slice(start, end) with 0-based start and end
Slice(s, start, end) == SubSeq(s, start + 1, Min(end, Len(s)))

\* chunkFrames.map((f, idx) => ({ ...f, frameNumber: idx + 1 })), mutated
RenumberedFramesMutant(chunk) ==
    [idx \in 1..Len(chunk) |-> [chunk[idx] EXCEPT !.frameNumber = idx - 1]]

\* chunkFrames.map((f, idx) => ({ ...f, frameNumber: idx + 1 }))
RenumberedFrames(chunk) ==
    [idx \in 1..Len(chunk) |-> [chunk[idx] EXCEPT !.frameNumber = idx]]

\* the clips made of the frames of marker number markerNo; part is 0 for a
\* clip that was not split
ClipsOfMarker(frames, markerNo) ==
    IF Len(frames) <= MAX_FRAMES_PER_CLIP
    THEN <<[name |-> <<markerNo, 0>>, frames |-> frames]>>
    ELSE LET numChunks == Ceil(Len(frames), MAX_FRAMES_PER_CLIP)
             chunkSize == Ceil(Len(frames), numChunks)
         IN  [chunkIdx \in 1..numChunks |->
                 LET start == (chunkIdx - 1) * chunkSize
                     end == Min(start + chunkSize, Len(frames))
                 IN  [name |-> <<markerNo, chunkIdx>>,
                      frames |-> RenumberedFrames(Slice(frames, start, end))]]

\* the end of the frame loop: the marker's clip, or its parts, are pushed
MarkerEnd ==
    /\ extract.pc = "frames"
    /\ Len(extract.allFrames) = Len(extract.frameTimes)
    /\ extract' = [extract EXCEPT
          !.pc = "marker",
          !.markerIdx = @ + 1,
          !.clips = @ \o ClipsOfMarker(extract.allFrames, extract.markerIdx + 1)]
    /\ UNCHANGED <<markerVideoDuration, markers, pendingMarkerStart, clips>>

\* onClipsCreated(clips): the annotator marks the clips as manual and appends
\* them to its clips
ExtractResolve ==
    /\ extract.pc = "marker"
    /\ extract.markerIdx = Len(extract.markers)
    /\ clips' = clips \o [k \in 1..Len(extract.clips) |->
                    [name |-> extract.clips[k].name, isManual |-> TRUE,
                     frames |-> extract.clips[k].frames]]
    /\ extract' = [extract EXCEPT !.pc = "idle"]
    /\ UNCHANGED <<markerVideoDuration, markers, pendingMarkerStart>>

NextManual ==
    \/ \E t \in MarkerTimes :
          TimelineClick(t) /\ UNCHANGED <<ingestVars, samplingVars, clipVars, storeVars, exportVars, opsVars, annotateVars, detectVars>>
    \/ \E t \in MarkerTimes :
          HandleSpaceMarker(t) /\ UNCHANGED <<ingestVars, samplingVars, clipVars, storeVars, exportVars, opsVars, annotateVars, detectVars>>
    \/ \E i \in 1..MaxMarkers, field \in {"startTime", "endTime"}, value \in MarkerTimes :
          UpdateMarker(i, field, value) /\ UNCHANGED <<ingestVars, samplingVars, clipVars, storeVars, exportVars, opsVars, annotateVars, detectVars>>
    \/ \E i \in 1..MaxMarkers :
          DeleteMarker(i) /\ UNCHANGED <<ingestVars, samplingVars, clipVars, storeVars, exportVars, opsVars, annotateVars, detectVars>>
    \/ ExtractStart /\ UNCHANGED <<filterMotionBlur, loadClips, samplingVars, clipVars, storeVars, exportVars, opsVars, annotateVars, detectVars>>
    \/ MarkerBegin /\ UNCHANGED <<filterMotionBlur, loadClips, samplingVars, clipVars, storeVars, exportVars, opsVars, annotateVars, detectVars>>
    \/ MarkerSeek /\ UNCHANGED <<filterMotionBlur, loadClips, samplingVars, clipVars, storeVars, exportVars, opsVars, annotateVars, detectVars>>
    \/ MarkerEnd /\ UNCHANGED <<filterMotionBlur, loadClips, samplingVars, clipVars, storeVars, exportVars, opsVars, annotateVars, detectVars>>
    \/ ExtractResolve /\ UNCHANGED <<filterMotionBlur, loadClips, samplingVars, clipVars, storeVars, exportVars, opsVars, annotateVars, detectVars>>

(***************************************************************************)
(* extractClipsFromMarkers as the file ManualClipEditor.tsx has it: the    *)
(* frame times of a marker are cut to framesPerClip, and each marker       *)
(* becomes one clip.  Its markers are set as above.                        *)
(***************************************************************************)
\* const limitedFrameTimes = frameTimes.slice(0, framesPerClip)
LimitedFrameTimes(marker, interval) ==
    SubSeq(FrameTimes(marker, interval), 1,
           Min(framesPerClip, Len(FrameTimes(marker, interval))))

MarkerBeginLimited ==
    /\ extract.pc = "marker"
    /\ extract.markerIdx < Len(extract.markers)
    /\ extract' = [extract EXCEPT
          !.pc = "frames",
          !.frameTimes = LimitedFrameTimes(extract.markers[extract.markerIdx + 1],
                                           clipFrameInterval),
          !.allFrames = <<>>]
    /\ UNCHANGED <<markerVideoDuration, markers, pendingMarkerStart, clips>>

\* clips.push({ name: clipName, frames, sourceVideo })
MarkerEndLimited ==
    /\ extract.pc = "frames"
    /\ Len(extract.allFrames) = Len(extract.frameTimes)
    /\ extract' = [extract EXCEPT
          !.pc = "marker",
          !.markerIdx = @ + 1,
          !.clips = Append(@, [name |-> <<extract.markerIdx + 1, 0>>,
                               frames |-> extract.allFrames])]
    /\ UNCHANGED <<markerVideoDuration, markers, pendingMarkerStart, clips>>

NextManualLimited ==
    \/ \E t \in MarkerTimes :
          TimelineClick(t) /\ UNCHANGED <<ingestVars, samplingVars, clipVars, storeVars, exportVars, opsVars, annotateVars, detectVars>>
    \/ \E t \in MarkerTimes :
          HandleSpaceMarker(t) /\ UNCHANGED <<ingestVars, samplingVars, clipVars, storeVars, exportVars, opsVars, annotateVars, detectVars>>
    \/ \E i \in 1..MaxMarkers, field \in {"startTime", "endTime"}, value \in MarkerTimes :
          UpdateMarker(i, field, value) /\ UNCHANGED <<ingestVars, samplingVars, clipVars, storeVars, exportVars, opsVars, annotateVars, detectVars>>
    \/ \E i \in 1..MaxMarkers :
          DeleteMarker(i) /\ UNCHANGED <<ingestVars, samplingVars, clipVars, storeVars, exportVars, opsVars, annotateVars, detectVars>>
    \/ ExtractStart /\ UNCHANGED <<filterMotionBlur, loadClips, samplingVars, clipVars, storeVars, exportVars, opsVars, annotateVars, detectVars>>
    \/ MarkerBeginLimited /\ UNCHANGED <<filterMotionBlur, loadClips, samplingVars, clipVars, storeVars, exportVars, opsVars, annotateVars, detectVars>>
    \/ MarkerSeek /\ UNCHANGED <<filterMotionBlur, loadClips, samplingVars, clipVars, storeVars, exportVars, opsVars, annotateVars, detectVars>>
    \/ MarkerEndLimited /\ UNCHANGED <<filterMotionBlur, loadClips, samplingVars, clipVars, storeVars, exportVars, opsVars, annotateVars, detectVars>>
    \/ ExtractResolve /\ UNCHANGED <<filterMotionBlur, loadClips, samplingVars, clipVars, storeVars, exportVars, opsVars, annotateVars, detectVars>>

(***************************************************************************)
(* The boxes of the detections (detectObjects, enhanceFrame and the frame  *)
(* step of extractFramesFromChunk).  A length is held in sub-pixels, the   *)
(* field per of a box telling how many of them make one pixel of the       *)
(* stored frame: the padding is a multiple of a twentieth of a pixel, and  *)
(* the division by enhanceScale multiplies per instead of rounding.        *)
(***************************************************************************)
ScaleUnit == 2            \* enhanceScale is held in halves (slider step 0.5)
MinEnhanceScale == 3      \* slider min={1.5}
MaxEnhanceScale == 8      \* slider max={4}
PaddingStep == 5          \* slider step={5} of boundingBoxPadding
MaxPadding == 50          \* slider max={50} of boundingBoxPadding
Percent == 100
SubPixel == Percent \div PaddingStep

InitBoxOff ==
    /\ canvas = [width |-> 0, height |-> 0]
    /\ enhanceVideo = FALSE /\ enhanceScale = 4 /\ boundingBoxPadding = 15
    /\ detectPc = "idle" /\ frameDetections = <<>> /\ boxFrames = <<>>

InitDetect ==
    /\ canvas \in [width : 3..MaxCanvasSide, height : 3..MaxCanvasSide]
    /\ enhanceVideo \in BOOLEAN
    /\ enhanceScale \in MinEnhanceScale..MaxEnhanceScale
    /\ boundingBoxPadding \in {p \in 0..MaxPadding : p % PaddingStep = 0}
    /\ detectPc = "drawn" /\ frameDetections = <<>> /\ boxFrames = <<>>
    /\ model = "loaded" /\ toast = "" /\ fileUpload = [pc |-> "idle", runs |-> 0, files |-> 0, newImages |-> <<>>]

\* Math.round of the non-negative a / b
Round(a, b) == (2 * a + b) \div (2 * b)

\* enhanceFrame: the size of the upscaled canvas
enhanceFrame(sourceCanvas, scaleFactor) ==
    [width |-> Round(sourceCanvas.width * scaleFactor, ScaleUnit),
     height |-> Round(sourceCanvas.height * scaleFactor, ScaleUnit)]

\* the boxes model.detect may report on an image, in pixels of that image:
\* inside it, over its edges and outside it
BBoxes(img) ==
    [x : {-1, 0, 1, img.width - 1, img.width + 1},
     y : {-1, 0, img.height - 1},
     width : {0, 1, img.width},
     height : {0, 1, img.height + 1},
     class : {"person", "chair"}]

\* detectObjects on an image: the map and the filter over the predictions
boxOf(pred, img) ==
    LET padding == (pred.width * boundingBoxPadding * SubPixel) \div Percent
        x == Max(0, pred.x * SubPixel - padding)
        y == Max(0, pred.y * SubPixel)
    IN  [x |-> x,
         y |-> y,
         width |-> Min(pred.width * SubPixel + padding * 2, img.width * SubPixel - x),
         height |-> Min(pred.height * SubPixel, img.height * SubPixel - y),
         per |-> SubPixel,
         label |-> IF pred.class = "person" THEN "Person" ELSE "Chair"]

detectObjects(predictions, img) ==
    SelectSeq([k \in 1..Len(predictions) |-> boxOf(predictions[k], img)],
              LAMBDA det : det.width > 0 /\ det.height > 0)

\* the image the detection runs on
detectionCanvas ==
    IF enhanceVideo /\ enhanceScale > ScaleUnit THEN enhanceFrame(canvas, enhanceScale)
    ELSE canvas

\* const detections = model ? await detectObjects(frameFile, ...) : []
DetectFrame(pred) ==
    /\ detectPc = "drawn"
    /\ frameDetections' = detectObjects(<<pred>>, detectionCanvas)
    /\ detectPc' = "detected"
    /\ UNCHANGED <<canvas, enhanceVideo, enhanceScale, boundingBoxPadding, boxFrames>>

\* x / enhanceScale: the numerator times ScaleUnit over per times enhanceScale
scaledBack(d) ==
    [d EXCEPT !.x = d.x * ScaleUnit, !.y = d.y * ScaleUnit,
              !.width = d.width * ScaleUnit, !.height = d.height * ScaleUnit,
              !.per = d.per * enhanceScale]

scaledDetections ==
    IF enhanceVideo /\ enhanceScale > ScaleUnit
    THEN [k \in 1..Len(frameDetections) |-> scaledBack(frameDetections[k])]
    ELSE frameDetections

personDetections == SelectSeq(scaledDetections, LAMBDA d : d.label = "Person")

\* the frame is pushed, with the size of the original canvas, when a person
\* was found on it
KeepFrame ==
    /\ detectPc = "detected"
    /\ Len(personDetections) > 0
    /\ boxFrames' = Append(boxFrames, [width |-> canvas.width, height |-> canvas.height,
                                       detections |-> personDetections])
    /\ detectPc' = "kept"
    /\ UNCHANGED <<canvas, enhanceVideo, enhanceScale, boundingBoxPadding, frameDetections>>

SkipFrame ==
    /\ detectPc = "detected"
    /\ Len(personDetections) = 0
    /\ detectPc' = "skipped"
    /\ UNCHANGED <<canvas, enhanceVideo, enhanceScale, boundingBoxPadding, frameDetections,
                   boxFrames>>

NextDetect ==
    \/ \E pred \in BBoxes(detectionCanvas) :
          DetectFrame(pred) /\ UNCHANGED <<samplingVars, clipVars, storeVars, exportVars, opsVars, ingestVars, manualVars, annotateVars, modelVars, seekVars, batchVars, storageVars, pathVars>>
    \/ KeepFrame /\ UNCHANGED <<samplingVars, clipVars, storeVars, exportVars, opsVars, ingestVars, manualVars, annotateVars, modelVars, seekVars, batchVars, storageVars, pathVars>>
    \/ SkipFrame /\ UNCHANGED <<samplingVars, clipVars, storeVars, exportVars, opsVars, ingestVars, manualVars, annotateVars, modelVars, seekVars, batchVars, storageVars, pathVars>>

(***************************************************************************)
(* The seeks of the frame loops.  extractFramesFromChunk (for all chunks   *)
(* of a video), createClipsFromVideo and extractClipsFromMarkers each make *)
(* a video element of their own and walk it: assign currentTime, await     *)
(* seeked, drawImage, await toBlob (and, for the upload, await             *)
(* detectObjects), push.  videos holds, per element, the position of its   *)
(* loop, the seeks the browser has not completed, where the element        *)
(* stands, and what was drawn and pushed.  Times are counted in frames.    *)
(***************************************************************************)
Elements == {"upload", "clips", "manual"}

NewVideo(n) ==
    [pc |-> "loop", n |-> n, i |-> 0, issued |-> 0, outstanding |-> <<>>, position |-> 0,
     drawn |-> <<>>, frames |-> <<>>]

InitSeekOff == videos = [e \in Elements |-> NewVideo(0)]

InitSeek == \E n \in [Elements -> 1..MaxSeeks] : videos = [e \in Elements |-> NewVideo(n[e])]

\* video.currentTime = currentTime: the handler goes on without the await
SeekAssignMutant(e) ==
    /\ videos[e].pc = "loop"
    /\ videos[e].i < videos[e].n
    /\ videos' = [videos EXCEPT ![e].outstanding = Append(@, videos[e].i),
                                ![e].issued = @ + 1,
                                ![e].pc = "draw"]

\* video.currentTime = currentTime, up to the await of the seeked event
SeekAssign(e) ==
    /\ videos[e].pc = "loop"
    /\ videos[e].i < videos[e].n
    /\ videos' = [videos EXCEPT ![e].outstanding = Append(@, videos[e].i),
                                ![e].issued = @ + 1,
                                ![e].pc = "awaitSeeked"]

\* the browser completes the seek of the element: the element stands at the
\* time assigned last, and video.onseeked resolves the promise awaited
Seeked(e) ==
    /\ videos[e].outstanding # <<>>
    /\ videos' = [videos EXCEPT
                     ![e].position = videos[e].outstanding[Len(videos[e].outstanding)],
                     ![e].outstanding = <<>>,
                     ![e].pc = IF @ = "awaitSeeked" THEN "draw" ELSE @]

\* ctx.drawImage(video, 0, 0), up to the await of toBlob
DrawImage(e) ==
    /\ videos[e].pc = "draw"
    /\ videos' = [videos EXCEPT ![e].drawn = Append(@, videos[e].position),
                                ![e].pc = "toBlob"]

\* toBlob resolves: the upload goes on to detectObjects, the clip loops push
BlobResolved(e) ==
    /\ videos[e].pc = "toBlob"
    /\ videos' = IF e = "upload"
                 THEN [videos EXCEPT ![e].pc = "detect"]
                 ELSE [videos EXCEPT ![e].frames = Append(@, videos[e].drawn[Len(videos[e].drawn)]),
                                     ![e].i = @ + 1,
                                     ![e].pc = "loop"]

\* detectObjects resolves: the frame is pushed or skipped, and the loop goes on
FrameDetected(e) ==
    /\ videos[e].pc = "detect"
    /\ videos' = [videos EXCEPT ![e].frames = Append(@, videos[e].drawn[Len(videos[e].drawn)]),
                                ![e].i = @ + 1,
                                ![e].pc = "loop"]

\* the loop ends
LoopEnd(e) ==
    /\ videos[e].pc = "loop"
    /\ videos[e].i = videos[e].n
    /\ videos' = [videos EXCEPT ![e].pc = "done"]

NextSeek ==
    \/ \E e \in Elements :
          SeekAssign(e) /\ UNCHANGED <<samplingVars, clipVars, storeVars, exportVars, opsVars, ingestVars, manualVars, annotateVars, boxVars, modelVars, batchVars, storageVars, pathVars>>
    \/ \E e \in Elements :
          Seeked(e) /\ UNCHANGED <<samplingVars, clipVars, storeVars, exportVars, opsVars, ingestVars, manualVars, annotateVars, boxVars, modelVars, batchVars, storageVars, pathVars>>
    \/ \E e \in Elements :
          DrawImage(e) /\ UNCHANGED <<samplingVars, clipVars, storeVars, exportVars, opsVars, ingestVars, manualVars, annotateVars, boxVars, modelVars, batchVars, storageVars, pathVars>>
    \/ \E e \in Elements :
          BlobResolved(e) /\ UNCHANGED <<samplingVars, clipVars, storeVars, exportVars, opsVars, ingestVars, manualVars, annotateVars, boxVars, modelVars, batchVars, storageVars, pathVars>>
    \/ \E e \in Elements :
          FrameDetected(e) /\ UNCHANGED <<samplingVars, clipVars, storeVars, exportVars, opsVars, ingestVars, manualVars, annotateVars, boxVars, modelVars, batchVars, storageVars, pathVars>>
    \/ \E e \in Elements :
          LoopEnd(e) /\ UNCHANGED <<samplingVars, clipVars, storeVars, exportVars, opsVars, ingestVars, manualVars, annotateVars, boxVars, modelVars, batchVars, storageVars, pathVars>>

(***************************************************************************)
(* The detection model (state model, loaded once by the effect of the      *)
(* first render) and the handlers that need it.  toast is the last         *)
(* toast.error on the screen.                                              *)
(***************************************************************************)
NoToast == ""
ModelLoadingToast == "KI-Modell wird noch geladen, bitte warten..."
NoClipsToast == "Keine Clips vorhanden"

IdleFileUpload == [pc |-> "idle", runs |-> 0, files |-> 0, newImages |-> <<>>]

InitModelOff ==
    /\ model = "loaded" /\ toast = NoToast /\ fileUpload = IdleFileUpload

InitModel ==
    /\ model = "null" /\ toast = NoToast /\ fileUpload = IdleFileUpload

\* the ingestions the guards on the model are checked on: one picture of a
\* person per video, or one clip, without the blur filter
InitModelInputs ==
    /\ InitIngest
    /\ ~filterMotionBlur
    /\ Len(scene) = 2
    /\ Len(clips) <= 1

\* the store the guards on the model are checked on: empty, or
\* MaxStoreFrames frames without a label
InitStoreUnlabelled ==
    \E n \in {0, MaxStoreFrames} :
        /\ objs = [o \in 1..n |-> LabelledFrame(o, NoLabel)]
        /\ images = [k \in 1..n |-> k]
        /\ currentIndex = 0
        /\ selectedDetection = NoSelection
        /\ selectedImages = {}
        /\ isProcessing = FALSE

\* const loadedModel = await cocoSsd.load(); setModel(loadedModel)
LoadModel ==
    /\ model = "null"
    /\ model' = "loaded"
    /\ UNCHANGED <<toast, fileUpload>>

\* handleVideoUpload with its guard on the model; the guard on isProcessing is
\* that of the button
handleVideoUpload(n) ==
    IF model = "null"
    THEN /\ ~isProcessing \/ Len(images) = 0
         /\ toast' = ModelLoadingToast
         /\ UNCHANGED <<samplingVars, storeVars>>
    ELSE VideoUploadStart(n) /\ UNCHANGED toast

\* handleFileUpload up to its first detectObjects
handleFileUpload(n) ==
    /\ ~isProcessing \/ Len(images) = 0
    /\ IF model = "null"
       THEN /\ toast' = ModelLoadingToast
            /\ UNCHANGED <<fileUpload, storeVars>>
       ELSE /\ fileUpload.pc = "idle"
            /\ fileUpload.runs < MaxIngests
            /\ isProcessing' = TRUE
            /\ fileUpload' = [pc |-> "detect", runs |-> fileUpload.runs + 1, files |-> n,
                              newImages |-> <<>>]
            /\ UNCHANGED <<toast, objs, images, currentIndex, selectedDetection,
                           selectedImages>>

\* the frame object handleFileUpload builds of file i: it has no sourceVideo,
\* no frameNumber and no activityLabel
UploadedImage(i, detections) ==
    [file |-> i, sourceVideo |-> NoLabel, frameNumber |-> 0, activityLabel |-> NoLabel,
     detections |-> detections]

\* the heap and the store after setImages of frames that are new objects
RECURSIVE Allocated(_, _, _)
Allocated(heap, frames, store) ==
    IF frames = <<>> THEN [objs |-> heap, images |-> store]
    ELSE LET oid == CHOOSE o \in 1..(Cardinality(DOMAIN heap) + 1) : o \notin DOMAIN heap
         IN  Allocated(WithObject(heap, oid, Head(frames)), Tail(frames), Append(store, oid))

\* detectObjects resolves for a file: the frame is pushed, and after the last
\* file the new frames become the store; the marked set is left as it is
FileUploadDetected(detections) ==
    /\ fileUpload.pc = "detect"
    /\ LET newImages == Append(fileUpload.newImages,
                               UploadedImage(Len(fileUpload.newImages) + 1, detections))
       IN  IF Len(newImages) < fileUpload.files
           THEN /\ fileUpload' = [fileUpload EXCEPT !.newImages = newImages]
                /\ UNCHANGED storeVars
           ELSE /\ \A after \in {Allocated(Retain(<<>>), newImages, <<>>)} :
                      objs' = after.objs /\ images' = after.images
                /\ currentIndex' = 0
                /\ selectedDetection' = NoSelection
                /\ isProcessing' = FALSE
                /\ fileUpload' = [fileUpload EXCEPT !.pc = "idle", !.newImages = <<>>]
                /\ UNCHANGED selectedImages
    /\ UNCHANGED toast

\* handleLoadClipsToAnnotator with its guards on the clips and on the model
handleLoadClipsToAnnotatorMutant ==
    IF Len(clips) = 0
    THEN /\ ~isProcessing
         /\ toast' = NoClipsToast
         /\ UNCHANGED <<ingestVars, storeVars>>
    ELSE LoadClipsStart /\ UNCHANGED toast

handleLoadClipsToAnnotator ==
    IF Len(clips) = 0
    THEN /\ ~isProcessing
         /\ toast' = NoClipsToast
         /\ UNCHANGED <<ingestVars, storeVars>>
    ELSE IF model = "null"
         THEN /\ ~isProcessing
              /\ toast' = ModelLoadingToast
              /\ UNCHANGED <<ingestVars, storeVars>>
         ELSE LoadClipsStart /\ UNCHANGED toast

\* handleRedetect: if (!model || images.length === 0) return
handleRedetect ==
    IF model = "null" \/ Len(images) = 0
    THEN /\ ~isProcessing
         /\ UNCHANGED <<opsVars, storeVars, toast>>
    ELSE RedetectStart /\ UNCHANGED toast

\* the batch button is disabled while the model is not loaded
BatchButton(from, to, label) ==
    /\ model # "null"
    /\ BatchLabelClick(from, to, label)
    /\ UNCHANGED toast

\* no handler is running, and fewer than MaxOperations uploads, loads and
\* batches were started: in this specification the operator starts one
\* operation at a time, and detects anew before the others
Quiet ==
    /\ upload.pc = "idle" /\ loadClips.pc = "idle" /\ redetect.pc = "idle"
    /\ fileUpload.pc = "idle" /\ batch.pc # "detect"
    /\ IngestsStarted + fileUpload.runs + batch.clicks < MaxOperations

NextModel ==
    \/ LoadModel /\ UNCHANGED <<samplingVars, clipVars, storeVars, exportVars, opsVars, ingestVars, manualVars, annotateVars, boxVars, seekVars, batchVars, storageVars, pathVars>>
    \/ \E n \in 1..MaxFiles :
          Quiet /\ handleVideoUpload(n) /\ UNCHANGED <<model, fileUpload, ingestVars, clipVars, exportVars, opsVars, manualVars, annotateVars, boxVars, seekVars, batchVars, storageVars, pathVars>>
    \/ ProcessVideo /\ UNCHANGED <<modelVars, ingestVars, clipVars, exportVars, opsVars, manualVars, annotateVars, boxVars, seekVars, batchVars, storageVars, pathVars>>
    \/ ChunkBegin /\ UNCHANGED <<modelVars, ingestVars, clipVars, exportVars, opsVars, manualVars, annotateVars, boxVars, seekVars, batchVars, storageVars, pathVars>>
    \/ ChunkSeek /\ UNCHANGED <<modelVars, ingestVars, clipVars, exportVars, opsVars, manualVars, annotateVars, boxVars, seekVars, batchVars, storageVars, pathVars>>
    \/ ChunkEnd /\ UNCHANGED <<modelVars, ingestVars, clipVars, exportVars, opsVars, manualVars, annotateVars, boxVars, seekVars, batchVars, storageVars, pathVars>>
    \/ ChunkFail /\ UNCHANGED <<modelVars, ingestVars, clipVars, exportVars, opsVars, manualVars, annotateVars, boxVars, seekVars, batchVars, storageVars, pathVars>>
    \/ VideoResolve /\ UNCHANGED <<modelVars, ingestVars, clipVars, exportVars, opsVars, manualVars, annotateVars, boxVars, seekVars, batchVars, storageVars, pathVars>>
    \/ VideoUploadNextFile /\ UNCHANGED <<modelVars, ingestVars, clipVars, exportVars, opsVars, manualVars, annotateVars, boxVars, seekVars, batchVars, storageVars, pathVars>>
    \/ VideoUploadFinish /\ UNCHANGED <<modelVars, ingestVars, clipVars, exportVars, opsVars, manualVars, annotateVars, boxVars, seekVars, batchVars, storageVars, pathVars>>
    \/ \E n \in 1..MaxFiles :
          Quiet /\ handleFileUpload(n) /\ UNCHANGED <<model, samplingVars, ingestVars, clipVars, exportVars, opsVars, manualVars, annotateVars, boxVars, seekVars, batchVars, storageVars, pathVars>>
    \/ \E detections \in RedetectOutputs :
          FileUploadDetected(detections) /\ UNCHANGED <<model, samplingVars, ingestVars, clipVars, exportVars, opsVars, manualVars, annotateVars, boxVars, seekVars, batchVars, storageVars, pathVars>>
    \/ Quiet /\ handleLoadClipsToAnnotator /\ UNCHANGED <<model, fileUpload, samplingVars, clipVars, exportVars, opsVars, manualVars, annotateVars, boxVars, seekVars, batchVars, storageVars, pathVars>>
    \/ LoadClipsDetect /\ UNCHANGED <<modelVars, samplingVars, clipVars, exportVars, opsVars, manualVars, annotateVars, boxVars, seekVars, batchVars, storageVars, pathVars>>
    \/ LoadClipsDetectAgain /\ UNCHANGED <<modelVars, samplingVars, clipVars, exportVars, opsVars, manualVars, annotateVars, boxVars, seekVars, batchVars, storageVars, pathVars>>
    \/ Quiet /\ handleRedetect /\ UNCHANGED <<model, fileUpload, ingestVars, samplingVars, clipVars, exportVars, manualVars, annotateVars, boxVars, seekVars, batchVars, storageVars, pathVars>>
    \/ \E detections \in RedetectOutputs :
          RedetectNext(detections) /\ UNCHANGED <<modelVars, ingestVars, samplingVars, clipVars, exportVars, manualVars, annotateVars, boxVars, seekVars, batchVars, storageVars, pathVars>>
    \/ \E detections \in RedetectOutputs :
          RedetectLast(detections) /\ UNCHANGED <<modelVars, ingestVars, samplingVars, clipVars, exportVars, manualVars, annotateVars, boxVars, seekVars, batchVars, storageVars, pathVars>>
    \/ \E from \in RangeInputs, to \in RangeInputs, label \in BatchLabels :
          Quiet /\ BatchButton(from, to, label) /\ UNCHANGED <<model, fileUpload, keyHandler, ingestVars, samplingVars, clipVars, exportVars, opsVars, manualVars, boxVars, seekVars, batchVars, storageVars, pathVars>>
    \/ \E detections \in RedetectOutputs :
          BatchDetected(detections) /\ UNCHANGED <<modelVars, keyHandler, ingestVars, samplingVars, clipVars, exportVars, opsVars, manualVars, boxVars, seekVars, batchVars, storageVars, pathVars>>

InitBatchOff == videoFiles = <<>>

InitPathOff == exportLabels = <<>> /\ folderNames = <<>>

\* localStorage.getItem("labelClipCounters"): null, or the text of the entry
AbsentEntry == [kind |-> "absent", pairs |-> <<>>]

\* the page before it is mounted
Unmounted == [mounted |-> FALSE, mounts |-> 0, entry |-> AbsentEntry, exports |-> 0]

InitStorageOff == localStorage = AbsentEntry /\ session = Unmounted

InitDetectOff == InitBoxOff /\ InitModelOff /\ InitSeekOff /\ InitBatchOff /\ InitStorageOff /\ InitPathOff

(***************************************************************************)
(* The mutators of the detections of the current frame                     *)
(* (handleDeleteDetection, the label buttons of the selected detection).   *)
(* The boxes are not part of the detections of the store, so the resize    *)
(* (handleCanvasMouseUp) is left out.                                      *)
(***************************************************************************)
\* the detection indices a caller can pass: -1, those of the detections of a
\* frame and the one behind them
DetectionIndices == (-1)..MaxDetections

\* Array.prototype.splice(idx, 1): a negative idx counts from the end, and an
\* idx behind the end removes nothing
Splice1(s, idx) ==
    LET start == IF idx < 0 THEN Max(Len(s) + idx, 0) ELSE Min(idx, Len(s))
    IN  [k \in 1..(IF start < Len(s) THEN Len(s) - 1 ELSE Len(s)) |->
            IF k <= start THEN s[k] ELSE s[k + 1]]

\* newImages[currentIndex] is undefined
NoCurrentFrame == currentIndex >= Len(images)

\* handleDeleteDetection(idx): without a current frame the handler throws a
\* TypeError on its second line; otherwise it splices the detections of the
\* frame object, clears the selection and shows toast.success
HandleDeleteDetection(idx) ==
    /\ IF NoCurrentFrame
       THEN UNCHANGED <<objs, selectedDetection>>
       ELSE /\ objs' = [objs EXCEPT ![images[currentIndex + 1]].detections = Splice1(@, idx)]
            /\ selectedDetection' = NoSelection
    /\ UNCHANGED <<images, currentIndex, selectedImages, isProcessing, toast>>

\* the click on a detection of the list or of the canvas
SelectDetection(idx) ==
    /\ ~NoCurrentFrame
    /\ idx < Len(objs[images[currentIndex + 1]].detections)
    /\ selectedDetection' = idx
    /\ UNCHANGED <<objs, images, currentIndex, selectedImages, isProcessing, toast>>

\* the keys Delete and Backspace
DeleteKey ==
    /\ selectedDetection # NoSelection
    /\ HandleDeleteDetection(selectedDetection)

\* the bin beside a detection of the list
DeleteButton(idx) ==
    /\ ~NoCurrentFrame
    /\ idx < Len(objs[images[currentIndex + 1]].detections)
    /\ HandleDeleteDetection(idx)

\* a label button of the selected detection: the label goes to the frame and
\* to the selected detection
RelabelSelected(label) ==
    /\ selectedDetection # NoSelection
    /\ objs' = [objs EXCEPT ![images[currentIndex + 1]] =
                   [@ EXCEPT !.activityLabel = label,
                             !.detections[selectedDetection + 1].label = label]]
    /\ UNCHANGED <<images, currentIndex, selectedDetection, selectedImages, isProcessing,
                   toast>>

NextDetections ==
    \/ \E idx \in 0..(MaxDetections - 1) :
          SelectDetection(idx) /\ UNCHANGED <<model, fileUpload, samplingVars, clipVars, exportVars, opsVars, ingestVars, manualVars, annotateVars, boxVars, seekVars, batchVars, storageVars, pathVars>>
    \/ DeleteKey /\ UNCHANGED <<model, fileUpload, samplingVars, clipVars, exportVars, opsVars, ingestVars, manualVars, annotateVars, boxVars, seekVars, batchVars, storageVars, pathVars>>
    \/ \E idx \in 0..(MaxDetections - 1) :
          DeleteButton(idx) /\ UNCHANGED <<model, fileUpload, samplingVars, clipVars, exportVars, opsVars, ingestVars, manualVars, annotateVars, boxVars, seekVars, batchVars, storageVars, pathVars>>
    \/ \E idx \in DetectionIndices :
          HandleDeleteDetection(idx) /\ UNCHANGED <<model, fileUpload, samplingVars, clipVars, exportVars, opsVars, ingestVars, manualVars, annotateVars, boxVars, seekVars, batchVars, storageVars, pathVars>>
    \/ \E label \in ActivityLabels :
          RelabelSelected(label) /\ UNCHANGED <<model, fileUpload, samplingVars, clipVars, exportVars, opsVars, ingestVars, manualVars, annotateVars, boxVars, seekVars, batchVars, storageVars, pathVars>>
    \/ HandleNext /\ UNCHANGED <<modelVars, samplingVars, clipVars, exportVars, opsVars, ingestVars, manualVars, annotateVars, boxVars, seekVars, batchVars, storageVars, pathVars>>
    \/ HandlePrevious /\ UNCHANGED <<modelVars, samplingVars, clipVars, exportVars, opsVars, ingestVars, manualVars, annotateVars, boxVars, seekVars, batchVars, storageVars, pathVars>>
    \/ HandleReset /\ UNCHANGED <<modelVars, samplingVars, clipVars, exportVars, opsVars, ingestVars, manualVars, annotateVars, boxVars, seekVars, batchVars, storageVars, pathVars>>

(***************************************************************************)
(* The files of a video upload.  handleVideoUpload awaits                  *)
(* extractFramesFromVideo for every file of the input in turn.  A file     *)
(* either fails to load (video.onerror) or loads its metadata              *)
(* (video.onloadedmetadata, which calls processVideo); processVideo        *)
(* refuses a duration that is NaN, zero, infinite or negative.  Every      *)
(* file has its own outcome and its own duration here, and the frame loop  *)
(* is the one of the sampling above.                                       *)
(***************************************************************************)
\* video.duration of a stream without a length, in ticks
Infinity == 1000

\* toast.error of processVideo for a duration it cannot use
DurationToast == "Video-Dauer konnte nicht ermittelt werden"

\* toast.error of video.onerror: the message up to its dash
VideoLoadToast == "Fehler beim Laden des Videos"

\* the check without its isFinite
InvalidDurationMutant(d) == d = NaN \/ d = 0 \/ d <= 0

\* toast.error of the catch of processVideo
ProcessingToast == "Fehler bei der Video-Verarbeitung"

\* !duration || !isFinite(duration) || duration <= 0
InvalidDuration(d) == d = NaN \/ d = 0 \/ d = Infinity \/ d <= 0

\* the files an upload is made of: one that does not load, loading ones
\* without a duration, of length zero and without an end, and ones of three
\* sampling times and of two chunks, of which every picture can be drawn
\* (decodes) or some picture makes drawImage throw
VideoFileKinds ==
    {[loads |-> FALSE, duration |-> NaN, decodes |-> FALSE]}
        \cup {[loads |-> TRUE, duration |-> d, decodes |-> FALSE] : d \in {NaN, 0, Infinity}}
        \cup {[loads |-> TRUE, duration |-> d, decodes |-> c] :
                d \in {2 * MaxFrameIntervalSeconds * TicksPerSecond, MaxDuration},
                c \in BOOLEAN}

\* the file the running extractFramesFromVideo was called with
CurrentVideoFile == videoFiles[upload.i + 1]

InitBatch ==
    /\ \E n \in 1..MaxFiles : videoFiles \in [1..n -> VideoFileKinds]
    /\ scene \in Scenes
    /\ filterMotionBlur \in BOOLEAN
    /\ frameInterval = MaxFrameIntervalSeconds * TicksPerSecond
    /\ chunkDuration = 1
    /\ duration = 0
    /\ clips = <<>>
    /\ loadClips = IdleLoadClips
    /\ upload = IdleUpload
    /\ SamplingIdle

\* the change event of the video input with the files of videoFiles
HandleVideoUploadOfFiles == handleVideoUpload(Len(videoFiles))

\* video.onerror: the notification, and the promise resolves with
\* { frames: [], blurryIndices: [] }
VideoOnError ==
    /\ upload.pc = "running"
    /\ videoPc = "idle"
    /\ ~CurrentVideoFile.loads
    /\ toast' = VideoLoadToast
    /\ videoPc' = "done"
    /\ UNCHANGED <<duration, frameInterval, chunkDuration, scene, upload, chunkIndex,
                   startTime, endTime, globalFrameOffset, chunkFrames, chunkI, seeks,
                   chunkResult, allFrames, allBlurryIndices, storeVars>>

\* video.onloadedmetadata calls processVideo, which reads video.duration:
\* a duration it cannot use gives the notification and resolves the promise
\* with { frames: [], blurryIndices: [] }, any other starts the chunk loop
VideoOnLoadedMetadata ==
    /\ upload.pc = "running"
    /\ videoPc = "idle"
    /\ CurrentVideoFile.loads
    /\ duration' = CurrentVideoFile.duration
    /\ IF InvalidDuration(duration')
       THEN /\ toast' = DurationToast
            /\ videoPc' = "done"
       ELSE /\ videoPc' = "chunks"
            /\ UNCHANGED toast
    /\ UNCHANGED <<frameInterval, chunkDuration, scene, upload, chunkIndex,
                   startTime, endTime, globalFrameOffset, chunkFrames, chunkI, seeks,
                   chunkResult, allFrames, allBlurryIndices, storeVars>>

\* drawImage throws on a picture of a file that does not decode: the catch
\* of processVideo notifies and resolves with { frames: [], blurryIndices: [] }
ChunkThrows ==
    /\ upload.pc = "running"
    /\ ~CurrentVideoFile.decodes
    /\ ChunkFail
    /\ toast' = ProcessingToast

NextBatch ==
    \/ HandleVideoUploadOfFiles /\ UNCHANGED <<model, fileUpload, ingestVars, clipVars, exportVars, opsVars, manualVars, annotateVars, boxVars, seekVars, batchVars, storageVars, pathVars>>
    \/ VideoOnError /\ UNCHANGED <<model, fileUpload, ingestVars, clipVars, exportVars, opsVars, manualVars, annotateVars, boxVars, seekVars, batchVars, storageVars, pathVars>>
    \/ VideoOnLoadedMetadata /\ UNCHANGED <<model, fileUpload, ingestVars, clipVars, exportVars, opsVars, manualVars, annotateVars, boxVars, seekVars, batchVars, storageVars, pathVars>>
    \/ ChunkBegin /\ UNCHANGED <<modelVars, ingestVars, clipVars, exportVars, opsVars, manualVars, annotateVars, boxVars, seekVars, batchVars, storageVars, pathVars>>
    \/ ChunkSeek /\ UNCHANGED <<modelVars, ingestVars, clipVars, exportVars, opsVars, manualVars, annotateVars, boxVars, seekVars, batchVars, storageVars, pathVars>>
    \/ ChunkEnd /\ UNCHANGED <<modelVars, ingestVars, clipVars, exportVars, opsVars, manualVars, annotateVars, boxVars, seekVars, batchVars, storageVars, pathVars>>
    \/ ChunkThrows /\ UNCHANGED <<model, fileUpload, ingestVars, clipVars, exportVars, opsVars, manualVars, annotateVars, boxVars, seekVars, batchVars, storageVars, pathVars>>
    \/ VideoResolve /\ UNCHANGED <<modelVars, ingestVars, clipVars, exportVars, opsVars, manualVars, annotateVars, boxVars, seekVars, batchVars, storageVars, pathVars>>
    \/ VideoUploadNextFile /\ UNCHANGED <<modelVars, ingestVars, clipVars, exportVars, opsVars, manualVars, annotateVars, boxVars, seekVars, batchVars, storageVars, pathVars>>
    \/ VideoUploadFinish /\ UNCHANGED <<modelVars, ingestVars, clipVars, exportVars, opsVars, manualVars, annotateVars, boxVars, seekVars, batchVars, storageVars, pathVars>>

(***************************************************************************)
(* The persisted clip counters.  The initializer of the state              *)
(* labelClipCounters reads the entry "labelClipCounters" of localStorage   *)
(* when the component is mounted, and an effect writes the entry after the *)
(* mount and after every render in which labelClipCounters has changed.    *)
(* The text of the entry is held as the list of its members; an entry can  *)
(* also be absent, the empty text, or a text JSON.parse throws on.         *)
(* Reloading the page mounts the component anew: nothing but localStorage  *)
(* outlives it.                                                            *)
(***************************************************************************)
\* JSON.stringify of a Record<string, number>: one member per key
RECURSIVE Members(_, _)
Members(counters, keys) ==
    IF keys = {} THEN <<>>
    ELSE LET k == CHOOSE x \in keys : TRUE
         IN  <<[key |-> k, value |-> counters[k]]>> \o Members(counters, keys \ {k})

JSONstringify(counters) == [kind |-> "json", pairs |-> Members(counters, DOMAIN counters)]

\* JSON.parse of the text of an object: the members in turn, a later member
\* of a key replaces an earlier one
RECURSIVE JSONparse(_)
JSONparse(pairs) ==
    IF pairs = <<>> THEN EmptyCounters
    ELSE SetCounter(JSONparse(Front(pairs)), Last(pairs).key, Last(pairs).value)

\* the initializer of labelClipCounters, mutated: the entry as it was written
\* by the mount before
LoadCountersMutant(entry) ==
    IF entry.kind = "json" THEN JSONparse(Front(entry.pairs)) ELSE EmptyCounters

\* the initializer of labelClipCounters: saved ? JSON.parse(saved) : {}, and
\* {} when getItem or JSON.parse throws
LoadCounters(entry) ==
    IF entry.kind = "json" THEN JSONparse(entry.pairs) ELSE EmptyCounters

\* the registries an earlier use of the page has persisted
PersistedRegistries ==
    {EmptyCounters,
     [l \in {"Weld"} |-> 1],
     [l \in {"Weld", "Grind"} |-> IF l = "Weld" THEN 2 ELSE 1]}

\* what the entry holds when the page is opened
StoredEntries ==
    {AbsentEntry, [kind |-> "empty", pairs |-> <<>>], [kind |-> "garbage", pairs |-> <<>>]}
        \cup {JSONstringify(m) : m \in PersistedRegistries}

InitStorage ==
    /\ localStorage \in StoredEntries
    /\ session = Unmounted

\* useEffect(() => localStorage.setItem(..., JSON.stringify(labelClipCounters)),
\* [labelClipCounters]) of the render that follows a step
StorageEffect == localStorage' = JSONstringify(labelClipCounters')

\* the page is opened or reloaded: the component is mounted with its initial
\* state, labelClipCounters from the entry, and the effect runs.  The calls
\* in flight of the page before are gone.
Mount ==
    /\ session.mounts < MaxMounts
    /\ session' = [mounted |-> TRUE, mounts |-> session.mounts + 1,
                   entry |-> localStorage, exports |-> 0]
    /\ labelClipCounters' = LoadCounters(localStorage)
    /\ StorageEffect
    /\ exportOnlyLabeled' = TRUE
    /\ exports' = [p \in ExportSlots |-> IdleExport]
    /\ lastExported' = EmptyCounters
    /\ objs' = NoObjects
    /\ images' = <<>>
    /\ currentIndex' = 0
    /\ selectedDetection' = NoSelection
    /\ selectedImages' = {}
    /\ isProcessing' = FALSE
    /\ UNCHANGED exportsStarted

\* the clips of a session: one frame labelled Grind, or that and one frame
\* labelled Weld
SessionRunSeqs == {RunsAt({1}), RunsAt({1, 4})}

\* the operator loads clips into the empty store and labels them: the store
\* of the runs of the export
LoadLabelledRuns ==
    /\ session.mounted
    /\ Len(images) = 0
    /\ \A p \in ExportSlots : ~ExportRunning(p)
    /\ \E runs \in SessionRunSeqs :
          LET frames == StoreOfRuns(runs, 1)
          IN  /\ objs' = [o \in 1..Len(frames) |-> frames[o]]
              /\ images' = [k \in 1..Len(frames) |-> k]
    /\ currentIndex' = 0
    /\ selectedDetection' = NoSelection
    /\ selectedImages' = {}
    /\ isProcessing' = FALSE

\* the click on "Export" of a mounted page
SessionExportStart(p) ==
    /\ session.mounted
    /\ ExportStart(p)
    /\ session' = [session EXCEPT !.exports = @ + 1]
    /\ UNCHANGED localStorage

\* the loop over the labels, setLabelClipCounters and the effect of the
\* render after it
PersistedExportWriteLabels(p) ==
    /\ ExportWriteLabels(p)
    /\ StorageEffect
    /\ UNCHANGED session

\* the button "Neu starten" and the effect of the render after it
PersistedResetCounters ==
    /\ session.mounted
    /\ ResetCounters
    /\ StorageEffect
    /\ UNCHANGED session

NextStorage ==
    \/ Mount /\ UNCHANGED <<ingestVars, samplingVars, clipVars, opsVars, manualVars, annotateVars, boxVars, modelVars, seekVars, batchVars, pathVars>>
    \/ LoadLabelledRuns /\ UNCHANGED <<ingestVars, samplingVars, clipVars, exportVars, opsVars, manualVars, annotateVars, detectVars>>
    \/ \E p \in ExportSlots : SessionExportStart(p) /\ UNCHANGED <<ingestVars, samplingVars, clipVars, storeVars, opsVars, manualVars, annotateVars, boxVars, modelVars, seekVars, batchVars, pathVars>>
    \/ \E p \in ExportSlots : PersistedExportWriteLabels(p) /\ UNCHANGED <<ingestVars, samplingVars, clipVars, storeVars, opsVars, manualVars, annotateVars, boxVars, modelVars, seekVars, batchVars, pathVars>>
    \/ \E p \in ExportSlots : ExportDone(p) /\ UNCHANGED <<ingestVars, samplingVars, clipVars, storeVars, opsVars, manualVars, annotateVars, detectVars>>
    \/ \E p \in ExportSlots : ExportFail(p) /\ UNCHANGED <<ingestVars, samplingVars, clipVars, storeVars, opsVars, manualVars, annotateVars, detectVars>>
    \/ PersistedResetCounters /\ UNCHANGED <<ingestVars, samplingVars, clipVars, storeVars, opsVars, manualVars, annotateVars, boxVars, modelVars, seekVars, batchVars, pathVars>>
    \/ HandleReset /\ UNCHANGED <<ingestVars, samplingVars, clipVars, exportVars, opsVars, manualVars, annotateVars, detectVars>>

(***************************************************************************)
(* The store under handlers that overlap: a redetect in flight, an upload  *)
(* of image files in flight, and the navigation, the marks, the delete of  *)
(* the marked frames and the reset, none of which is disabled meanwhile.   *)
(***************************************************************************)
NextInterleave ==
    \/ RedetectStart /\ UNCHANGED <<ingestVars, samplingVars, clipVars, exportVars, manualVars, annotateVars, detectVars>>
    \/ \E detections \in RedetectOutputs :
          RedetectNext(detections) /\ UNCHANGED <<ingestVars, samplingVars, clipVars, exportVars, manualVars, annotateVars, detectVars>>
    \/ \E detections \in RedetectOutputs :
          RedetectLast(detections) /\ UNCHANGED <<ingestVars, samplingVars, clipVars, exportVars, manualVars, annotateVars, detectVars>>
    \/ \E n \in 1..MaxFiles :
          handleFileUpload(n) /\ UNCHANGED <<model, samplingVars, ingestVars, clipVars, exportVars, opsVars, manualVars, annotateVars, boxVars, seekVars, batchVars, storageVars, pathVars>>
    \/ \E detections \in RedetectOutputs :
          FileUploadDetected(detections) /\ UNCHANGED <<model, samplingVars, ingestVars, clipVars, exportVars, opsVars, manualVars, annotateVars, boxVars, seekVars, batchVars, storageVars, pathVars>>
    \/ HandleReset /\ UNCHANGED <<ingestVars, samplingVars, clipVars, exportVars, opsVars, manualVars, annotateVars, detectVars>>
    \/ HandleNext /\ UNCHANGED <<ingestVars, samplingVars, clipVars, exportVars, opsVars, manualVars, annotateVars, detectVars>>
    \/ HandlePrevious /\ UNCHANGED <<ingestVars, samplingVars, clipVars, exportVars, opsVars, manualVars, annotateVars, detectVars>>
    \/ ToggleMark /\ UNCHANGED <<ingestVars, samplingVars, clipVars, exportVars, opsVars, manualVars, annotateVars, detectVars>>
    \/ DeleteMarked /\ UNCHANGED <<ingestVars, samplingVars, clipVars, exportVars, opsVars, manualVars, annotateVars, detectVars>>

(***************************************************************************)
(* The folder names of the export.  toSafePathSegment on texts held        *)
(* character by character: trim, a full-width character for each of the    *)
(* nine characters a path cannot have, then a video extension at the end   *)
(* is removed, one extension after the other.  {FF0F} and the like stand   *)
(* for the full-width characters.                                          *)
(***************************************************************************)
\* String.prototype.trim on a text of characters
RECURSIVE TrimStart(_)
TrimStart(cs) == IF cs # <<>> /\ Head(cs) = " " THEN TrimStart(Tail(cs)) ELSE cs

RECURSIVE TrimEnd(_)
TrimEnd(cs) == IF cs # <<>> /\ Last(cs) = " " THEN TrimEnd(Front(cs)) ELSE cs

TrimChars(cs) == TrimEnd(TrimStart(cs))

\* the replacements of toSafePathSegment, character for character
FullWidthOf(c) ==
    CASE c = "\\" -> "{FF3C}"
      [] c = "/" -> "{FF0F}"
      [] c = ":" -> "{FF1A}"
      [] c = "*" -> "{FF0A}"
      [] c = "?" -> "{FF1F}"
      [] c = "\"" -> "{FF02}"
      [] c = "<" -> "{FF1C}"
      [] c = ">" -> "{FF1E}"
      [] c = "|" -> "{FF5C}"
      [] OTHER -> c

\* the lower-case letter of a letter of the extensions
LowerChar(c) ==
    CASE c = "M" -> "m" [] c = "P" -> "p" [] c = "A" -> "a" [] c = "V" -> "v"
      [] c = "I" -> "i" [] c = "O" -> "o" [] c = "K" -> "k" [] c = "W" -> "w"
      [] c = "E" -> "e" [] c = "B" -> "b"
      [] OTHER -> c

\* the extensions toSafePathSegment removes, in the order of its calls
VideoExtensions ==
    <<<<".", "m", "p", "4">>, <<".", "a", "v", "i">>, <<".", "m", "o", "v">>,
      <<".", "m", "k", "v">>, <<".", "w", "e", "b", "m">>>>

\* .replace(/\.ext$/i, "")
StripExtension(cs, ext) ==
    IF /\ Len(cs) >= Len(ext)
       /\ \A k \in 1..Len(ext) : LowerChar(cs[Len(cs) - Len(ext) + k]) = ext[k]
    THEN SubSeq(cs, 1, Len(cs) - Len(ext))
    ELSE cs

RECURSIVE StripExtensions(_, _)
StripExtensions(cs, exts) ==
    IF exts = <<>> THEN cs
    ELSE StripExtensions(StripExtension(cs, Head(exts)), Tail(exts))

\* toSafePathSegment
toSafePathSegmentChars(name) ==
    LET trimmed == TrimChars(name)
        replaced == [k \in 1..Len(trimmed) |-> FullWidthOf(trimmed[k])]
    IN  StripExtensions(replaced, VideoExtensions)

\* getCustomLabel on a frame whose activityLabel is the text: the text trimmed
ExportLabelChars(typed) == TrimChars(typed)

\* the texts of up to MaxStemLen characters
RECURSIVE TextsOver(_, _)
TextsOver(alphabet, n) ==
    IF n = 0 THEN {<<>>}
    ELSE LET shorter == TextsOver(alphabet, n - 1)
         IN  shorter \cup {Append(t, c) : t \in shorter, c \in alphabet}

\* the labels the operator types: a stem of a letter, a solidus, a full-width
\* solidus and a blank, with or without the extension of a video file
TypedLabels ==
    {stem \o suffix :
        stem \in TextsOver({"W", "/", "{FF0F}", " "}, MaxStemLen) \ {<<>>},
        suffix \in {<<>>, <<".", "m", "p", "4">>, <<".", "M", "P", "4">>,
                    <<".", "a", "v", "i", ".", "m", "p", "4">>}}

InitPath ==
    /\ exportLabels \in TypedLabels \X TypedLabels
    /\ folderNames = <<>>

\* the loop over byLabel of an export of frames of the two labels:
\* zip.folder(toSafePathSegment(label)) for each label
ExportFolders ==
    /\ folderNames = <<>>
    /\ folderNames' = [k \in 1..2 |-> toSafePathSegmentChars(ExportLabelChars(exportLabels[k]))]
    /\ UNCHANGED exportLabels

NextPath ==
    \/ ExportFolders /\ UNCHANGED <<samplingVars, clipVars, storeVars, exportVars, opsVars, ingestVars, manualVars, annotateVars, boxVars, modelVars, seekVars, batchVars, storageVars>>

(***************************************************************************)
(* The marker editor over several videos.  handleVideoUpload of the editor *)
(* loads another video: it empties the marker list and leaves the pending  *)
(* start alone; handleVideoLoaded then sets the duration of the new video. *)
(* The times clicked lie within the video on screen.                       *)
(***************************************************************************)
\* the durations of the videos the operator loads into the editor, in ticks
MarkerVideoDurations == {2, MaxMarkerTicks}

\* Math.max(0, Math.min(timelineOffset + ratio * visibleDuration, duration))
\* snapped: the times of the grid within the video
ClickTimes == {t \in MarkerTimes \cup {2} : t <= markerVideoDuration}

\* handleVideoUpload of the editor, and handleVideoLoaded when the metadata
\* of the new video have arrived
LoadMarkerVideo(d) ==
    /\ extract.runs = 0
    /\ markers' = <<>>
    /\ markerVideoDuration' = d
    /\ UNCHANGED <<pendingMarkerStart, extract>>

\* cancelPendingMarker (Escape, and the button "Abbrechen")
CancelPendingMarker ==
    /\ pendingMarkerStart # NoPending
    /\ pendingMarkerStart' = NoPending
    /\ UNCHANGED <<markerVideoDuration, markers, extract>>

NextMarkers ==
    \/ \E t \in ClickTimes :
          TimelineClick(t) /\ UNCHANGED <<ingestVars, samplingVars, clipVars, storeVars, exportVars, opsVars, annotateVars, detectVars>>
    \/ \E t \in ClickTimes :
          HandleSpaceMarker(t) /\ UNCHANGED <<ingestVars, samplingVars, clipVars, storeVars, exportVars, opsVars, annotateVars, detectVars>>
    \/ \E i \in 1..MaxMarkers, field \in {"startTime", "endTime"}, value \in MarkerTimes :
          UpdateMarker(i, field, value) /\ UNCHANGED <<ingestVars, samplingVars, clipVars, storeVars, exportVars, opsVars, annotateVars, detectVars>>
    \/ \E i \in 1..MaxMarkers :
          DeleteMarker(i) /\ UNCHANGED <<ingestVars, samplingVars, clipVars, storeVars, exportVars, opsVars, annotateVars, detectVars>>
    \/ \E d \in MarkerVideoDurations :
          LoadMarkerVideo(d) /\ UNCHANGED <<ingestVars, samplingVars, clipVars, storeVars, exportVars, opsVars, annotateVars, detectVars>>
    \/ CancelPendingMarker /\ UNCHANGED <<ingestVars, samplingVars, clipVars, storeVars, exportVars, opsVars, annotateVars, detectVars>>

(***************************************************************************)
(* The operations that set isProcessing, started one at a time, and        *)
(* handleReset, whose button stays enabled while an operation runs: it     *)
(* empties the store and sets isProcessing to false under the operation.   *)
(* A step of an operation is the continuation after an await; the event    *)
(* loop runs it once the promise has resolved.                             *)
(***************************************************************************)
NextProcessing ==
    \/ \E n \in 1..MaxFiles :
          Quiet /\ handleVideoUpload(n) /\ UNCHANGED <<model, fileUpload, ingestVars, clipVars, exportVars, opsVars, manualVars, annotateVars, boxVars, seekVars, batchVars, storageVars, pathVars>>
    \/ ProcessVideo /\ UNCHANGED <<modelVars, ingestVars, clipVars, exportVars, opsVars, manualVars, annotateVars, boxVars, seekVars, batchVars, storageVars, pathVars>>
    \/ ChunkBegin /\ UNCHANGED <<modelVars, ingestVars, clipVars, exportVars, opsVars, manualVars, annotateVars, boxVars, seekVars, batchVars, storageVars, pathVars>>
    \/ ChunkSeek /\ UNCHANGED <<modelVars, ingestVars, clipVars, exportVars, opsVars, manualVars, annotateVars, boxVars, seekVars, batchVars, storageVars, pathVars>>
    \/ ChunkEnd /\ UNCHANGED <<modelVars, ingestVars, clipVars, exportVars, opsVars, manualVars, annotateVars, boxVars, seekVars, batchVars, storageVars, pathVars>>
    \/ ChunkFail /\ UNCHANGED <<modelVars, ingestVars, clipVars, exportVars, opsVars, manualVars, annotateVars, boxVars, seekVars, batchVars, storageVars, pathVars>>
    \/ VideoResolve /\ UNCHANGED <<modelVars, ingestVars, clipVars, exportVars, opsVars, manualVars, annotateVars, boxVars, seekVars, batchVars, storageVars, pathVars>>
    \/ VideoUploadNextFile /\ UNCHANGED <<modelVars, ingestVars, clipVars, exportVars, opsVars, manualVars, annotateVars, boxVars, seekVars, batchVars, storageVars, pathVars>>
    \/ VideoUploadFinish /\ UNCHANGED <<modelVars, ingestVars, clipVars, exportVars, opsVars, manualVars, annotateVars, boxVars, seekVars, batchVars, storageVars, pathVars>>
    \/ \E n \in 1..MaxFiles :
          Quiet /\ handleFileUpload(n) /\ UNCHANGED <<model, samplingVars, ingestVars, clipVars, exportVars, opsVars, manualVars, annotateVars, boxVars, seekVars, batchVars, storageVars, pathVars>>
    \/ \E detections \in RedetectOutputs :
          FileUploadDetected(detections) /\ UNCHANGED <<model, samplingVars, ingestVars, clipVars, exportVars, opsVars, manualVars, annotateVars, boxVars, seekVars, batchVars, storageVars, pathVars>>
    \/ Quiet /\ handleLoadClipsToAnnotator /\ UNCHANGED <<model, fileUpload, samplingVars, clipVars, exportVars, opsVars, manualVars, annotateVars, boxVars, seekVars, batchVars, storageVars, pathVars>>
    \/ LoadClipsDetect /\ UNCHANGED <<modelVars, samplingVars, clipVars, exportVars, opsVars, manualVars, annotateVars, boxVars, seekVars, batchVars, storageVars, pathVars>>
    \/ LoadClipsDetectAgain /\ UNCHANGED <<modelVars, samplingVars, clipVars, exportVars, opsVars, manualVars, annotateVars, boxVars, seekVars, batchVars, storageVars, pathVars>>
    \/ Quiet /\ handleRedetect /\ UNCHANGED <<model, fileUpload, ingestVars, samplingVars, clipVars, exportVars, manualVars, annotateVars, boxVars, seekVars, batchVars, storageVars, pathVars>>
    \/ \E detections \in RedetectOutputs :
          RedetectNext(detections) /\ UNCHANGED <<modelVars, ingestVars, samplingVars, clipVars, exportVars, manualVars, annotateVars, boxVars, seekVars, batchVars, storageVars, pathVars>>
    \/ \E detections \in RedetectOutputs :
          RedetectLast(detections) /\ UNCHANGED <<modelVars, ingestVars, samplingVars, clipVars, exportVars, manualVars, annotateVars, boxVars, seekVars, batchVars, storageVars, pathVars>>
    \/ \E from \in RangeInputs, to \in RangeInputs, label \in BatchLabels :
          Quiet /\ BatchButton(from, to, label) /\ UNCHANGED <<model, fileUpload, keyHandler, ingestVars, samplingVars, clipVars, exportVars, opsVars, manualVars, boxVars, seekVars, batchVars, storageVars, pathVars>>
    \/ \E detections \in RedetectOutputs :
          BatchDetected(detections) /\ UNCHANGED <<modelVars, keyHandler, ingestVars, samplingVars, clipVars, exportVars, opsVars, manualVars, boxVars, seekVars, batchVars, storageVars, pathVars>>
    \/ HandleReset /\ UNCHANGED <<ingestVars, samplingVars, clipVars, exportVars, opsVars, manualVars, annotateVars, detectVars>>

\* the continuations of handleVideoUpload: a seek, a detector call or a
\* pause has returned, or the metadata of the video have arrived
VideoUploadStep ==
    \/ ProcessVideo /\ UNCHANGED <<modelVars, ingestVars, clipVars, exportVars, opsVars, manualVars, annotateVars, boxVars, seekVars, batchVars, storageVars, pathVars>>
    \/ ChunkBegin /\ UNCHANGED <<modelVars, ingestVars, clipVars, exportVars, opsVars, manualVars, annotateVars, boxVars, seekVars, batchVars, storageVars, pathVars>>
    \/ ChunkSeek /\ UNCHANGED <<modelVars, ingestVars, clipVars, exportVars, opsVars, manualVars, annotateVars, boxVars, seekVars, batchVars, storageVars, pathVars>>
    \/ ChunkEnd /\ UNCHANGED <<modelVars, ingestVars, clipVars, exportVars, opsVars, manualVars, annotateVars, boxVars, seekVars, batchVars, storageVars, pathVars>>
    \/ ChunkFail /\ UNCHANGED <<modelVars, ingestVars, clipVars, exportVars, opsVars, manualVars, annotateVars, boxVars, seekVars, batchVars, storageVars, pathVars>>
    \/ VideoResolve /\ UNCHANGED <<modelVars, ingestVars, clipVars, exportVars, opsVars, manualVars, annotateVars, boxVars, seekVars, batchVars, storageVars, pathVars>>
    \/ VideoUploadNextFile /\ UNCHANGED <<modelVars, ingestVars, clipVars, exportVars, opsVars, manualVars, annotateVars, boxVars, seekVars, batchVars, storageVars, pathVars>>
    \/ VideoUploadFinish /\ UNCHANGED <<modelVars, ingestVars, clipVars, exportVars, opsVars, manualVars, annotateVars, boxVars, seekVars, batchVars, storageVars, pathVars>>

\* the continuation of handleFileUpload: detectObjects has resolved
FileUploadStep ==
    \/ \E detections \in RedetectOutputs :
          FileUploadDetected(detections) /\ UNCHANGED <<model, samplingVars, ingestVars, clipVars, exportVars, opsVars, manualVars, annotateVars, boxVars, seekVars, batchVars, storageVars, pathVars>>

\* the continuations of handleLoadClipsToAnnotator: detectObjects has resolved
LoadClipsStep ==
    \/ LoadClipsDetect /\ UNCHANGED <<modelVars, samplingVars, clipVars, exportVars, opsVars, manualVars, annotateVars, boxVars, seekVars, batchVars, storageVars, pathVars>>
    \/ LoadClipsDetectAgain /\ UNCHANGED <<modelVars, samplingVars, clipVars, exportVars, opsVars, manualVars, annotateVars, boxVars, seekVars, batchVars, storageVars, pathVars>>

\* the continuations of handleRedetect: detectObjects has resolved
RedetectStep ==
    \/ \E detections \in RedetectOutputs :
          RedetectNext(detections) /\ UNCHANGED <<modelVars, ingestVars, samplingVars, clipVars, exportVars, manualVars, annotateVars, boxVars, seekVars, batchVars, storageVars, pathVars>>
    \/ \E detections \in RedetectOutputs :
          RedetectLast(detections) /\ UNCHANGED <<modelVars, ingestVars, samplingVars, clipVars, exportVars, manualVars, annotateVars, boxVars, seekVars, batchVars, storageVars, pathVars>>

\* the continuation of the batch: detectObjects has resolved
BatchStep ==
    \/ \E detections \in RedetectOutputs :
          BatchDetected(detections) /\ UNCHANGED <<modelVars, keyHandler, ingestVars, samplingVars, clipVars, exportVars, opsVars, manualVars, boxVars, seekVars, batchVars, storageVars, pathVars>>

\* every promise an operation awaits resolves in the end, and its
\* continuation then runs
ProcessingFairness ==
    /\ WF_vars(VideoUploadStep)
    /\ WF_vars(FileUploadStep)
    /\ WF_vars(LoadClipsStep)
    /\ WF_vars(RedetectStep)
    /\ WF_vars(BatchStep)

(***************************************************************************)
(* Claims about the ingestion.                                             *)
(***************************************************************************)
\* the frames of the store st over the heap
StoreFrames(st, heap) == [k \in 1..Len(st) |-> heap[st[k]]]

\* the detections of the class person among detections
PersonClass(detections) == SelectSeq(detections, LAMBDA d : d.cls = "person")

\* the frames of one clip that the store is to hold
ExpectedOfClip(clip) ==
    LET kept == SelectSeq(clip.frames,
                          LAMBDA f : clip.isManual \/ Len(PersonClass(f.picture)) >= 1)
    IN  [k \in 1..Len(kept) |->
            [file |-> kept[k].file,
             sourceVideo |-> clip.name,
             frameNumber |-> kept[k].frameNumber,
             activityLabel |-> NoLabel,
             detections |-> PersonClass(kept[k].picture)]]

RECURSIVE ExpectedOfClips(_)
ExpectedOfClips(cl) ==
    IF cl = <<>> THEN <<>> ELSE ExpectedOfClip(Head(cl)) \o ExpectedOfClips(Tail(cl))

\* the step in which handleLoadClipsToAnnotator ends
LoadClipsEnds == loadClips.pc # "idle" /\ loadClips'.pc = "idle"

\* C6: loadClips puts into the store, in clip order and then frame order,
\* every frame of every manual clip, whatever detection returns, and exactly
\* those frames of automatic clips that have at least one person-class
\* detection; each stored frame carries only its person-class detections.
C6_LoadClipsStoresFrames ==
    [][LoadClipsEnds => StoreFrames(images', objs') = ExpectedOfClips(loadClips.clips)]_vars

\* clips were loaded: a frame of a manual clip without any detection is in
\* the store, a frame of an automatic clip was discarded and another one kept,
\* and a detection of another class was left out
C6_ManualKeptAutoDropped ==
    /\ loadClips.pc = "idle"
    /\ loadClips.runs > 0
    /\ StoreFrames(images, objs) = ExpectedOfClips(loadClips.clips)
    /\ \E c \in 1..Len(loadClips.clips) :
          /\ loadClips.clips[c].isManual
          /\ \E k \in 1..Len(images) :
                /\ objs[images[k]].sourceVideo = loadClips.clips[c].name
                /\ objs[images[k]].detections = <<>>
    /\ \E c \in 1..Len(loadClips.clips) :
          /\ ~loadClips.clips[c].isManual
          /\ Len(ExpectedOfClip(loadClips.clips[c])) = 1
          /\ Len(loadClips.clips[c].frames) = 2
          /\ \E f \in 1..2 : \E d \in 1..Len(loadClips.clips[c].frames[f].picture) :
                loadClips.clips[c].frames[f].picture[d].cls = "car"

\* the frame has a person detection and each of its person detections scores
\* below the blur threshold
BlurredFrame(frame) ==
    /\ Len(PersonClass(frame.detections)) >= 1
    /\ \A k \in 1..Len(frame.detections) :
          frame.detections[k].cls = "person" => frame.detections[k].blurScore < blurThreshold

\* the step in which handleVideoUpload or handleLoadClipsToAnnotator ends
IngestEnds == LoadClipsEnds \/ (upload.pc = "running" /\ upload'.pc = "idle")

\* C7: with motion-blur filtering enabled, ingestion adds a frame to the
\* review-marked set only if every person detection on it scores below the
\* blur threshold, and it adds every frame that has at least one person
\* detection all of which score below the threshold; a flagged frame stays in
\* the store, and the index in the marked set is the frame's own index in the
\* store when ingestion ends.
C7_BlurredFramesMarked ==
    [][(IngestEnds /\ filterMotionBlur) =>
          /\ \A idx \in selectedImages' :
                /\ idx \in 0..(Len(images') - 1)
                /\ \A k \in 1..Len(objs'[images'[idx + 1]].detections) :
                      objs'[images'[idx + 1]].detections[k].cls = "person"
                          => objs'[images'[idx + 1]].detections[k].blurScore < blurThreshold
          /\ \A k \in 1..Len(images') :
                BlurredFrame(objs'[images'[k]]) => (k - 1) \in selectedImages']_vars

\* a video of two chunks was uploaded twice with the filter on: a blurred
\* frame of the second chunk of the second file is marked at its index, and a
\* frame with a sharp person is in the store unmarked
C7_BlurredFrameOfSecondChunkMarked ==
    /\ upload.pc = "idle"
    /\ upload.i = 2
    /\ filterMotionBlur
    /\ chunkIndex > 1
    /\ \E idx \in selectedImages :
          /\ idx < Len(images)
          /\ BlurredFrame(FrameAt(idx))
          /\ FrameAt(idx).sourceVideo = VideoNames[2]
          /\ FrameAt(idx).frameNumber >= Floor(CHUNK_DURATION, frameInterval)
    /\ \E idx \in 0..(Len(images) - 1) :
          /\ idx \notin selectedImages
          /\ ~BlurredFrame(FrameAt(idx))
    /\ \A idx \in 0..(Len(images) - 1) : BlurredFrame(FrameAt(idx)) <=> idx \in selectedImages

\* C13: when a chunk of a video of several chunks fails after earlier chunks
\* of that video were completed, the frames sampled from the earlier chunks
\* (those the store still holds) are in the store when the upload ends.
C13_EarlierChunksKept ==
    [][(upload.pc = "running" /\ upload'.pc = "idle") =>
          \A o \in Range(upload.partial) \cap Range(images) : o \in Range(images')]_vars

(***************************************************************************)
(* Claims about the store operations.                                      *)
(***************************************************************************)
\* the operations that change the frame list or the marked set and that the
\* operator starts with a button or a key
OperatorMutation ==
    \/ ApplyQuickLabel(quickLabelF)
    \/ HandleReset
    \/ DeleteMarked
    \/ ToggleMark

\* C4: while a store-mutating operation is in progress (isProcessing is true),
\* no other operation that mutates the frame list, the selection indices, the
\* marked set or the counters can be started.
C4_NoMutationWhileProcessing ==
    [][isProcessing => ~OperatorMutation]_vars

\* C5: after redetect completes, the activityLabel of every frame equals its
\* value before redetect started, and on every frame whose activityLabel is
\* set each person-class detection that the re-detection produced carries that
\* label (as export reads it, without surrounding blanks) and not the class name.
C5_RedetectKeepsLabels ==
    [][(redetect.pc = "detect" /\ redetect'.pc = "idle") =>
          /\ Len(images') = Len(redetect.before)
          /\ \A k \in 1..Len(images') :
                LET img == objs'[images'[k]]
                IN  /\ img.activityLabel = redetect.before[k]
                    /\ Trim(img.activityLabel) # "" =>
                          \A j \in 1..Len(img.detections) :
                              img.detections[j].cls = "person" =>
                                  img.detections[j].label = Trim(img.activityLabel)]_vars

(***************************************************************************)
(* Claims about sampling and clip creation.                                *)
(***************************************************************************)
\* the times 0, I, 2I, ... that are at most D
SampleTimes(D, I) == [k \in 1..(Floor(D, I) + 1) |-> (k - 1) * I]

TimesOf(frames) == [k \in 1..Len(frames) |-> frames[k].time]

RECURSIVE Flatten(_)
Flatten(ss) == IF ss = <<>> THEN <<>> ELSE Head(ss) \o Flatten(Tail(ss))

\* C9: for a video of finite positive duration D and interval I, direct video
\* sampling visits exactly the times 0, I, 2I, ... that are at most D, each
\* exactly once and in strictly increasing order over the whole video, across
\* chunk boundaries and for any chunk duration.
C9_EachSampleTimeOnce ==
    (videoPc = "done" /\ duration > 0) =>
        TimesOf(seeks) = SampleTimes(duration, frameInterval)

\* a sampling run that crossed a chunk boundary and has ended
C9_MultiChunkDone == videoPc = "done" /\ chunkIndex > 1

\* C10: automatic clip creation for a video of duration D at interval I yields
\* clips whose frames, concatenated in clip order, are exactly the samples at
\* times 0, I, 2I, ... at most D in increasing order; every clip but the last
\* has exactly framesPerClip frames, the last has between 1 and framesPerClip,
\* and the frames of each clip are numbered 1..N without gaps.
C10_ClipsCoverAllSamples ==
    (clipPc = "done" /\ clipVideoDuration > 0) =>
        /\ TimesOf(Flatten(createdClips)) = SampleTimes(clipVideoDuration, clipFrameInterval)
        /\ \A c \in 1..Len(createdClips) :
              /\ Len(createdClips[c]) >= 1
              /\ Len(createdClips[c]) <= framesPerClip
              /\ c < Len(createdClips) => Len(createdClips[c]) = framesPerClip
              /\ \A n \in 1..Len(createdClips[c]) : createdClips[c][n].frameNumber = n

\* a clip creation that ended with more than one clip
C10_SeveralClipsDone == clipPc = "done" /\ Len(createdClips) > 1

\* C22: automatic clip creation for a 130-second video with a 1-second
\* interval and 32 frames per clip yields exactly 5 clips: four clips of 32
\* frames and one last clip of 2 frames, each numbered 1..N.
C22_ExampleFiveClips ==
    (clipPc = "done" /\ clipVideoDuration = ExampleClipSeconds * TicksPerSecond
       /\ clipFrameInterval = TicksPerSecond /\ framesPerClip = ExampleFramesPerClip) =>
        /\ Len(createdClips) = 5
        /\ \A c \in 1..Len(createdClips) :
              /\ Len(createdClips[c]) = IF c < 5 THEN ExampleFramesPerClip ELSE 2
              /\ \A n \in 1..Len(createdClips[c]) : createdClips[c][n].frameNumber = n


(***************************************************************************)
(* Claims about the export and the clip counter registry.                  *)
(***************************************************************************)
\* C1: if an export containing label L runs to completion and a second export
\* containing L is then started with no reset of the registry in between, the
\* ordinals the second export gives to L are disjoint from the first export's
\* and the second's first ordinal for L is the first's last ordinal plus 1.
\* exports[p].before holds the ordinals of the export that had completed last
\* when export p was started.
C1_SecondExportContinues ==
    [][\A p \in ExportSlots :
          ExportDone(p) =>
            \A l \in FolderLabels(exports[p].folders) \cap DOMAIN exports[p].before :
                /\ OrdinalsOf(exports[p].folders, l) \cap exports[p].before[l] = {}
                /\ SetMin(OrdinalsOf(exports[p].folders, l))
                     = SetMax(exports[p].before[l]) + 1]_vars

\* C2: for every label, the counter never decreases across any operation but
\* the explicit reset of the registry.
C2_CountersNeverDecrease ==
    [][ResetCounters
       \/ \A l \in DOMAIN labelClipCounters :
             Counter(labelClipCounters', l) >= labelClipCounters[l]]_vars

\* C3: an export changes the registry only if it completes successfully: an
\* export whose archive generation fails has changed no counter.
C3_FailedExportWroteNothing ==
    [][\A p \in ExportSlots : ExportFail(p) => ~exports[p].wrote]_vars

\* no frame of the store qualifies for an export
NoFrameQualifies ==
    \/ Len(images) = 0
    \/ /\ exportOnlyLabeled
       /\ \A k \in 1..Len(images) :
             /\ Trim(objs[images[k]].activityLabel) = ""
             /\ \A d \in 1..Len(objs[images[k]].detections) :
                   \/ Trim(objs[images[k]].detections[d].label) = ""
                   \/ ToLowerCase(Trim(objs[images[k]].detections[d].label)) \in cocoLabels

\* the step is a click on "Export" that is kept in slot p
ExportRequested(p) == exportsStarted' = exportsStarted + 1 /\ exports'[p] # exports[p]

\* C14: when no frame qualifies for export (the store is empty, or only
\* labelled frames are exported and no frame has a qualifying label), the
\* export is rejected with a notification, it produces no archive, and every
\* counter of the registry is unchanged.
C14_NothingToExportRejected ==
    [][\A p \in ExportSlots :
          /\ (ExportRequested(p) /\ NoFrameQualifies) =>
                /\ exports'[p].pc = "rejected"
                /\ exports'[p].folders = <<>>
                /\ labelClipCounters' = labelClipCounters
          /\ (exports[p].pc = "rejected" /\ exports'[p] # exports[p]) => ExportRequested(p)]_vars

\* C14 witness: an export was rejected although the registry holds counters
\* of an earlier export
C14_RejectedWithCounters ==
    \E p \in ExportSlots :
        /\ exports[p].pc = "rejected"
        /\ NoFrameQualifies
        /\ \E l \in DOMAIN labelClipCounters : labelClipCounters[l] > 0

\* the folders an export wrote for one label, in the order it wrote them
FoldersOfLabel(folders, label) == SelectSeq(folders, LAMBDA f : f.label = label)

\* the number of frames of one label and one clip among the frames to export
FramesIn(entries, label, clipKey) ==
    Len(SelectSeq(entries, LAMBDA e : e.label = label /\ e.clipKey = clipKey))

\* the clip keys of one label among the frames to export
ClipKeysIn(entries, label) ==
    {entries[k].clipKey : k \in {j \in 1..Len(entries) : entries[j].label = label}}

\* the labels of the frames to export
LabelsIn(entries) == {entries[k].label : k \in 1..Len(entries)} \ {NoLabel}

\* what C8 demands of the step in which export p writes its folders and the
\* registry: c is the counter of the label when the export started
C8_Holds(p) ==
    LET entries == exports[p].entries
        before == exports[p].snapshot
        folders == exports'[p].folders
    IN  /\ \A l \in LabelsIn(entries) :
              LET mine == FoldersOfLabel(folders, l)
                  c == Counter(before, l)
              IN  /\ \A j \in 1..Len(mine) : mine[j].clipNumber = c + j
                  /\ \A i, j \in 1..Len(mine) :
                        i < j => \/ ClipRank(mine[i].sourceClip) < ClipRank(mine[j].sourceClip)
                                 \/ /\ mine[i].sourceClip = mine[j].sourceClip
                                    /\ mine[i].chunkIndex < mine[j].chunkIndex
                  /\ \A clipKey \in ClipKeysIn(entries, l) :
                        Cardinality({j \in 1..Len(mine) : mine[j].sourceClip = clipKey})
                          = Ceil(FramesIn(entries, l, clipKey), MAX_FRAMES_PER_CLIP)
                  /\ \A j \in 1..Len(mine) : mine[j].sourceClip \in ClipKeysIn(entries, l)
                  /\ Counter(labelClipCounters', l) = c + Len(mine)
        /\ \A l \in (DOMAIN before \cup DOMAIN labelClipCounters') \ LabelsIn(entries) :
              Counter(labelClipCounters', l) = Counter(before, l)
        /\ \A j \in 1..Len(folders) : folders[j].label \in LabelsIn(entries)

\* C8: within one export, each exported label whose counter is c before the
\* export gets the ordinals c+1, ..., c+k with no gap and no repeat, in the
\* order of the source-clip names and then of the sub-chunks; after the export
\* the counter of the label is c+k and the counter of every label that did not
\* occur in the export is what it was before the export.
C8_OrdinalsContinueCounter ==
    [][\A p \in ExportSlots : ExportWriteLabels(p) => C8_Holds(p)]_vars

\* an export has written, for a label with a counter above 0, three folders
\* out of two clips, one clip split into sub-chunks, while the registry holds
\* a label that the export does not contain
C8_ThreeFoldersWritten ==
    \E p \in ExportSlots :
        /\ exports[p].pc = "zipping"
        /\ \E l \in FolderLabels(exports[p].folders) :
              /\ Counter(exports[p].snapshot, l) > 0
              /\ Len(FoldersOfLabel(exports[p].folders, l)) >= 3
              /\ \E j \in 1..Len(exports[p].folders) : exports[p].folders[j].chunkIndex > 0
        /\ \E l \in DOMAIN exports[p].snapshot :
              exports[p].snapshot[l] > 0 /\ l \notin FolderLabels(exports[p].folders)

\* the JSON files an export wrote into the clip folder f
FilesOfFolder(files, f) ==
    SelectSeq(files, LAMBDA x : /\ x.bucket = "labeld"
                                /\ x.folder = toSafePathSegment(f.label)
                                /\ x.clipNumber = f.clipNumber)

\* the picture of a frame to export or of a file
Picture(x) == [oid |-> x.oid, frameNumber |-> x.frameNumber, file |-> x.file]

\* what C21 demands of the folders mine and the files written for a group
C21_GroupHolds(group, mine, files) ==
    /\ Len(mine) = Ceil(Len(group), MAX_FRAMES_PER_CLIP)
    /\ \A j \in 1..Len(mine) :
          \A fs \in {FilesOfFolder(files, mine[j])} :
              /\ Len(fs) = IF j < Len(mine) THEN MAX_FRAMES_PER_CLIP
                           ELSE Len(group) - MAX_FRAMES_PER_CLIP * (Len(mine) - 1)
              /\ \A k \in 1..Len(fs) : fs[k].baseName = k
    /\ \A written \in {Flatten([j \in 1..Len(mine) |-> FilesOfFolder(files, mine[j])])} :
          /\ Len(written) = Len(group)
          /\ {Picture(written[k]) : k \in 1..Len(written)}
               = {Picture(group[k]) : k \in 1..Len(group)}
          /\ \A k \in 1..(Len(written) - 1) : FrameLeq(written[k], written[k + 1])

\* what C21 demands of the step in which export p writes its folders
C21_Holds(p) ==
    \A entries \in {exports[p].entries}, folders \in {exports'[p].folders},
       files \in {exports'[p].files} :
        \A l \in LabelsIn(entries) : \A clipKey \in ClipKeysIn(entries, l) :
            \A group \in {SelectSeq(entries, LAMBDA e : e.label = l /\ e.clipKey = clipKey)},
               mine \in {SelectSeq(folders, LAMBDA f : f.label = l /\ f.sourceClip = clipKey)} :
                C21_GroupHolds(group, mine, files)

\* C21: a group of n frames with one label from one source clip is exported
\* as ceil(n/200) clip folders in the sorted frame order of the group: every
\* folder but the last holds exactly 200 frames, the last holds the rest, and
\* the files of each folder are numbered frames00001, frames00002, ... from 1
\* without a gap.
C21_GroupsInFoldersOfCap ==
    [][\A p \in ExportSlots : ExportWriteLabels(p) => C21_Holds(p)]_vars

\* C21 witness: an export wrote the frames of one label and one clip into a
\* folder of 200 files and a next folder of one file
C21_FullAndRestFolder ==
    \E p \in ExportSlots :
        /\ exports[p].pc = "zipping"
        /\ \E i, j \in 1..Len(exports[p].folders) :
              /\ exports[p].folders[i].label = exports[p].folders[j].label
              /\ exports[p].folders[i].sourceClip = exports[p].folders[j].sourceClip
              /\ exports[p].folders[j].clipNumber = exports[p].folders[i].clipNumber + 1
              /\ Len(FilesOfFolder(exports[p].files, exports[p].folders[i])) = MAX_FRAMES_PER_CLIP
              /\ Len(FilesOfFolder(exports[p].files, exports[p].folders[j])) = 1

(***************************************************************************)
(* Claims about the labels and the files of the export.                    *)
(***************************************************************************)
\* the first label of the detections that is not blank and, in lower case,
\* not a class name of the detector; NoLabel if there is none
RECURSIVE FirstOwnLabel(_)
FirstOwnLabel(dets) ==
    IF dets = <<>> THEN NoLabel
    ELSE IF Trim(Head(dets).label) # "" /\ ToLowerCase(Trim(Head(dets).label)) \notin cocoLabels
         THEN Head(dets).label
         ELSE FirstOwnLabel(Tail(dets))

\* the first label of the detections that, in lower case, is not a class
\* name of the detector
RECURSIVE FirstNotDenied(_)
FirstNotDenied(dets) ==
    IF dets = <<>> THEN NoLabel
    ELSE IF ToLowerCase(Head(dets).label) \notin cocoLabels
         THEN Head(dets).label
         ELSE FirstNotDenied(Tail(dets))

\* the export label as the claim words it
StatedLabel(img) ==
    IF Trim(img.activityLabel) # "" THEN img.activityLabel ELSE FirstNotDenied(img.detections)

\* the export label with the blanks around it removed
TrimmedLabel(img) ==
    IF Trim(img.activityLabel) # "" THEN Trim(img.activityLabel)
    ELSE Trim(FirstOwnLabel(img.detections))

\* the files an export wrote for the frame object o
FilesOf(p, o) == SelectSeq(exports[p].files, LAMBDA f : f.oid = o)

\* the frame object o went where its label sends it
RoutedBy(p, o, label) ==
    IF label # NoLabel
    THEN /\ Len(FilesOf(p, o)) = 1
         /\ FilesOf(p, o)[1].bucket = "labeld"
         /\ FilesOf(p, o)[1].activityLabel = label
    ELSE IF exports[p].onlyLabeled
         THEN FilesOf(p, o) = <<>>
         ELSE /\ Len(FilesOf(p, o)) = 1
              /\ FilesOf(p, o)[1].bucket = "Unlabeled"

JsonFilesWritten(p) == SelectSeq(exports[p].files, LAMBDA f : f.bucket = "labeld")

PathSafe(label) == IF label = "Cut/Dry" THEN "Cut{FF0F}Dry" ELSE label

FramesNow == [k \in 1..Len(images) |-> objs[images[k]]]
FramesNext == [k \in 1..Len(images') |-> objs'[images'[k]]]

\* a quick label was applied in this step, by its key or by its button
QuickLabelApplied(label) == KeyQuickLabel(label) \/ ApplyQuickLabel(label)

\* C15: applyLabel(i, L) sets the activityLabel of frame i and the label of
\* each of its detections to L and removes i from the review-marked set;
\* every other frame, the frame order, the geometry of the detections and
\* all other marks are unchanged.
C15_ApplyLabelSetsAndUnmarks ==
    [][\A label \in {quickLabelF, quickLabelG} :
          QuickLabelApplied(label) =>
              /\ images' = images
              /\ FramesNext = [FramesNow EXCEPT ![currentIndex + 1] = Relabelled(@, label)]
              /\ currentIndex \notin selectedImages'
              /\ selectedImages' \ {currentIndex} = selectedImages \ {currentIndex}]_vars

\* the frames, the store order and the marks, before and after a step
StoreNow == [objs |-> objs, images |-> images, selectedImages |-> selectedImages]
StoreNext == [objs |-> objs', images |-> images', selectedImages |-> selectedImages']

\* what applyQuickLabel(label) makes of the store st when it is called with
\* the images and the selectedImages of the render k and the index cur
applyQuickLabelOn(st, k, cur, label) ==
    IF Len(k.images) = 0 \/ cur >= Len(k.images) THEN st
    ELSE [objs |-> [st.objs EXCEPT ![k.images[cur + 1]] = Relabelled(@, label)],
          images |-> k.images,
          selectedImages |-> IF cur \in k.selectedImages THEN st.selectedImages \ {cur}
                             ELSE st.selectedImages]

\* the render the buttons F, G and H call applyQuickLabel of: the current one
RenderOf(st) == [images |-> st.images, selectedImages |-> st.selectedImages]

\* the key and the button do what applyQuickLabelOn computes
C29_ApplyIsApplyQuickLabelOn ==
    [][\A label \in {quickLabelF, quickLabelG} :
          /\ KeyQuickLabel(label) =>
                StoreNext = applyQuickLabelOn(StoreNow, keyHandler, currentIndex, label)
          /\ ApplyQuickLabel(label) =>
                StoreNext = applyQuickLabelOn(StoreNow, RenderOf(StoreNow), currentIndex, label)]_vars

\* C29: applyLabel(i, L) is idempotent: after the label L was applied to the
\* current frame, by its key or by its button, applying L to the same frame
\* once more, by the key or by the button, leaves the frames, the labels,
\* the detections, the marked set and the selection as they are.
C29_ApplyLabelIdempotent ==
    [][\A label \in {quickLabelF, quickLabelG} :
          QuickLabelApplied(label) =>
              /\ applyQuickLabelOn(StoreNext, keyHandler', currentIndex', label) = StoreNext
              /\ applyQuickLabelOn(StoreNext, RenderOf(StoreNext), currentIndex', label)
                    = StoreNext]_vars

\* C29 for the button alone: after the button has applied L, the button
\* applying L once more leaves the store as it is.
C29_ButtonIdempotent ==
    [][ApplyQuickLabel(quickLabelF) =>
           applyQuickLabelOn(StoreNext, RenderOf(StoreNext), currentIndex', quickLabelF)
              = StoreNext]_vars

\* the batch button ends in this step
BatchEnds == batch.pc # "done" /\ batch'.pc = "done"

\* the frame is what the batch makes of the frame it was at the click
BatchLabelled(before, after, label) ==
    /\ after.activityLabel = label
    /\ IF before.detections = <<>>
       THEN /\ [after EXCEPT !.detections = <<>>] = [before EXCEPT !.activityLabel = label]
            /\ \A k \in 1..Len(after.detections) :
                  after.detections[k].cls = "person" /\ after.detections[k].label = label
       ELSE after = Relabelled(before, label)

\* C16: batchLabel(from, to, L) with 0 <= from <= to < length sets
\* activityLabel = L on exactly the frames from..to; a frame of the range
\* that had no detections gets the person boxes of a detection run, labelled
\* L; a frame of the range that had detections keeps its boxes, each
\* labelled L; the frames outside the range are unchanged.
C16_BatchLabelsRange ==
    [][BatchEnds =>
          /\ Len(FramesNext) = Len(batch'.before)
          /\ \A k \in 1..Len(batch'.before) :
                IF k - 1 \in batch'.from..batch'.to /\ k <= Len(FramesNext)
                THEN BatchLabelled(batch'.before[k], FramesNext[k], batch'.label)
                ELSE k <= Len(FramesNext) /\ FramesNext[k] = batch'.before[k]]_vars

\* the batch button is clicked in this step
BatchRequested == batch'.clicks = batch.clicks + 1

\* the bounds violate 0 <= from <= to < length
BoundsViolated(from, to) == ~(0 <= from /\ from <= to /\ to < Len(images))

\* C17: batchLabel called with bounds that violate 0 <= from <= to < length
\* is rejected with a notification and changes nothing: no activityLabel, no
\* detection, no mark and no selection index.
C17_InvalidBatchRejected ==
    [][(BatchRequested /\ BoundsViolated(batch'.from, batch'.to)) =>
          /\ batch'.pc = "rejected"
          /\ FramesNext = FramesNow
          /\ UNCHANGED storeVars]_vars

\* C17 witness: a batch from a frame to the frame before it was rejected, with
\* a label picked and a frame marked
C17_BackwardRangeRejected ==
    /\ batch.pc = "rejected"
    /\ batch.label # ""
    /\ 0 <= batch.to /\ batch.to < batch.from /\ batch.from < Len(images)
    /\ selectedImages # {}

\* the elements of s whose 0-based index is not in gone, in the order of s
Survivors(s, gone) ==
    LET F[k \in 0..Len(s)] ==
            IF k = 0 THEN <<>>
            ELSE IF (k - 1) \in gone THEN F[k - 1] ELSE Append(F[k - 1], s[k])
    IN  F[Len(s)]

\* the selected-frame index lies in [0, length - 1], and is 0 in an empty store
IndexInStore(idx, length) == IF length = 0 THEN idx = 0 ELSE idx \in 0..(length - 1)

\* C18: deleteMarked removes exactly the frames whose indices are in the
\* review-marked set and deleteRange(from, to) removes exactly the frames
\* from..to; the remaining frames keep their order, the selected-frame index
\* then lies in [0, length - 1] (0 in an empty store), the detection
\* selection is cleared and, for deleteMarked, the marked set is empty.
C18_DeleteRemovesExactly ==
    [][/\ DeleteMarked =>
             /\ FramesNext = Survivors(FramesNow, selectedImages)
             /\ IndexInStore(currentIndex', Len(images'))
             /\ selectedDetection' = NoSelection
             /\ selectedImages' = {}
       /\ \A from \in 0..(MaxStoreFrames - 1), to \in 0..(MaxStoreFrames - 1) :
             DeleteRange(from, to) =>
                 /\ FramesNext = Survivors(FramesNow, from..to)
                 /\ IndexInStore(currentIndex', Len(images'))
                 /\ selectedDetection' = NoSelection]_vars

\* C18 witness: the first of two frames was deleted while the second was
\* shown: the second is the only frame of the store and is shown
C18_FirstFrameDeleted ==
    /\ Len(images) = 1
    /\ objs[images[1]].file = 2
    /\ currentIndex = 0
    /\ selectedImages = {}
    /\ batch.pc = "idle"

(***************************************************************************)
(* Claims about the manual clip editor.                                    *)
(***************************************************************************)
\* the clips made of the marker whose frame loop ended last
PartsOfLastMarker ==
    SelectSeq(extract.clips, LAMBDA c : c.name[1] = extract.markerIdx)

\* the frames of the parts, one part after the other
RECURSIVE FramesOfParts(_)
FramesOfParts(parts) ==
    IF parts = <<>> THEN <<>> ELSE Head(parts).frames \o FramesOfParts(Tail(parts))

\* the frames without their numbers: which picture of which time
Unnumbered(fs) == [k \in 1..Len(fs) |-> [file |-> fs[k].file, time |-> fs[k].time]]

\* a marker's frame loop has ended and its frames were more than the cap
MarkerWasSplit ==
    /\ extract.pc = "marker"
    /\ extract.markerIdx > 0
    /\ Len(extract.allFrames) > MAX_FRAMES_PER_CLIP

\* the sampling of the marker at hand has ended
MarkerSampled == extract.pc = "frames" /\ Len(extract.allFrames) = Len(extract.frameTimes)

\* the times s, s + I, s + 2I, ... below e
TimesBelow(s0, e, interval) ==
    {s0 + k * interval : k \in {j \in 0..Max(e - s0, 0) : s0 + j * interval < e}}

\* C23: for each marker with start s and end e, manual extraction samples
\* every time s, s + I, s + 2I, ... strictly below e, with no truncation to
\* framesPerClip or to any other frame count before the cap-splitting step,
\* and numbers the sampled frames 1..N in time order.
C23_MarkerSampledInFull ==
    MarkerSampled =>
        \A m \in {extract.markers[extract.markerIdx + 1]}, fs \in {extract.allFrames} :
            /\ {fs[n].time : n \in 1..Len(fs)} = TimesBelow(m.startTime, m.endTime, clipFrameInterval)
            /\ \A n \in 1..Len(fs) :
                  /\ fs[n].frameNumber = n
                  /\ fs[n].time = m.startTime + (n - 1) * clipFrameInterval

\* a marker longer than framesPerClip frames was sampled
C23_LongMarkerSampled ==
    /\ MarkerSampled
    /\ Len(extract.allFrames) > framesPerClip

\* C11: when a marker's frames exceed the cap and are split, every part is
\* numbered 1..N without gaps, and the parts' frames, taken in part order,
\* are the frames the marker had before the split, in their order in time:
\* none lost, none twice, none out of place.
C11_SplitKeepsFrames ==
    MarkerWasSplit =>
        LET parts == PartsOfLastMarker
            joined == FramesOfParts(parts)
        IN  /\ \A p \in 1..Len(parts) : \A k \in 1..Len(parts[p].frames) :
                  parts[p].frames[k].frameNumber = k
            /\ \A p \in 1..Len(parts) : parts[p].name[2] = p
            /\ Unnumbered(joined) = Unnumbered(extract.allFrames)
            /\ \A k \in 1..(Len(joined) - 1) : joined[k].time < joined[k + 1].time

\* C11 witness: a marker of more than twice the cap was split into three
\* parts, not all of the same size
C11_SplitInThree ==
    /\ MarkerWasSplit
    /\ Len(extract.allFrames) > 2 * MAX_FRAMES_PER_CLIP
    /\ Len(PartsOfLastMarker) = 3
    /\ Len(PartsOfLastMarker[1].frames) # Len(PartsOfLastMarker[3].frames)

\* C24: in every reachable state of the marker editor every marker of the
\* marker list has endTime - startTime >= 0.5 seconds, whether it was made
\* by two clicks on the timeline, by the space bar, or changed afterwards by
\* editing its start or its end.
C24_MarkersHaveMinimumLength ==
    \A k \in 1..Len(markers) :
        (markers[k].endTime - markers[k].startTime) * 2 >= TicksPerSecond

\* C12: every clip handed to the annotator, automatic or manual or part of
\* a split clip, has between 1 and 200 frames, and a marker of n > 200
\* frames is split into exactly ceil(n / 200) parts, none of them empty.
C12_ClipSizes ==
    /\ \A k \in 1..Len(clips) :
          Len(clips[k].frames) \in 1..MAX_FRAMES_PER_CLIP
    /\ \A k \in 1..Len(createdClips) :
          Len(createdClips[k]) \in 1..MAX_FRAMES_PER_CLIP
    /\ MarkerWasSplit =>
          /\ Len(PartsOfLastMarker) = Ceil(Len(extract.allFrames), MAX_FRAMES_PER_CLIP)
          /\ \A p \in 1..Len(PartsOfLastMarker) : Len(PartsOfLastMarker[p].frames) >= 1

(***************************************************************************)
(* Claims about the boxes of the detections.                               *)
(***************************************************************************)
\* the box d lies within a frame of width x height pixels and is not empty
BoxInFrame(d, width, height) ==
    /\ 0 <= d.x /\ 0 <= d.y
    /\ d.x + d.width <= width * d.per
    /\ d.y + d.height <= height * d.per
    /\ d.width > 0 /\ d.height > 0

\* C25: every detection recorded by the ingestion, after padding, clamping
\* and scaling back from the enhanced image, lies within the stored original
\* frame: 0 <= x, 0 <= y, x + width <= imageWidth, y + height <= imageHeight,
\* width > 0 and height > 0.
C25_BoxesWithinFrame ==
    \A k \in 1..Len(boxFrames) : \A n \in 1..Len(boxFrames[k].detections) :
        BoxInFrame(boxFrames[k].detections[n], boxFrames[k].width, boxFrames[k].height)

\* C25 without enhancement: the boxes detected on the original picture lie
\* within the stored frame.
C25_BoxesWithinFrameUnenhanced ==
    ~(enhanceVideo /\ enhanceScale > ScaleUnit) => C25_BoxesWithinFrame

\* a padded box that reached over both sides of the original picture was
\* recorded, clamped to the picture
C25_ClampedBoxRecorded ==
    /\ ~enhanceVideo /\ boundingBoxPadding > 0 /\ Len(boxFrames) = 1
    /\ \E n \in 1..Len(boxFrames[1].detections) :
          /\ boxFrames[1].detections[n].x = 0
          /\ boxFrames[1].detections[n].width = boxFrames[1].width * SubPixel

(***************************************************************************)
(* Claims about the detection model.                                       *)
(***************************************************************************)
\* an operation that needs the detector is invoked
DetectionOperation ==
    \/ \E n \in 1..MaxFiles : handleVideoUpload(n)
    \/ \E n \in 1..MaxFiles : handleFileUpload(n)
    \/ handleLoadClipsToAnnotator
    \/ handleRedetect
    \/ \E from \in RangeInputs, to \in RangeInputs, label \in BatchLabels :
          BatchButton(from, to, label)

\* nothing was started, and the frames, the marks and the selection are as
\* they were
Refused ==
    /\ UNCHANGED <<objs, images, selectedImages, currentIndex, selectedDetection>>
    /\ UNCHANGED <<upload, fileUpload, loadClips, redetect, batch, isProcessing>>

\* a handler that detects is running
Detecting ==
    \/ upload.pc # "idle" \/ fileUpload.pc # "idle" \/ loadClips.pc # "idle"
    \/ redetect.pc # "idle" \/ batch.pc = "detect"

\* C26: while the detection model is not loaded, video upload, image upload,
\* loadClips, redetect and batchLabel refuse to start and leave the frame
\* list, the marked set and the selection indices unchanged; none of them is
\* ever running without the model.
C26_NoModelNoDetection ==
    [][/\ (model = "null" /\ DetectionOperation) => Refused
       /\ Detecting' => model' = "loaded"]_vars

\* C26 witness: an upload or a load of clips was refused with the notification
\* that the model is still loading, over a store that holds frames
C26_RefusedWhileLoading ==
    /\ model = "null" /\ toast = ModelLoadingToast
    /\ Len(images) = MaxStoreFrames /\ ~Detecting

OutOfBounds(idx) ==
    \/ NoCurrentFrame
    \/ idx < 0
    \/ idx >= Len(objs[images[currentIndex + 1]].detections)

C28_BehindTheEndKeepsFrames ==
    [][\A idx \in DetectionIndices :
          (~NoCurrentFrame /\ OutOfBounds(idx) /\ idx >= 0 /\ HandleDeleteDetection(idx)) =>
              UNCHANGED <<objs, images>>]_vars

(***************************************************************************)
(* Claims about the files of a video upload.                               *)
(***************************************************************************)
\* a duration that is finite and positive
FinitePositive(d) == d # NaN /\ d # Infinity /\ d > 0

\* a file whose duration is not finite and positive or that fails to load
BadFile(f) == ~f.loads \/ ~FinitePositive(f.duration)

\* the frame numbers of the frames of the j-th file in a store
FrameNumbersOf(heap, store, j) ==
    {heap[store[p]].frameNumber :
        p \in {q \in 1..Len(store) : heap[store[q]].sourceVideo = VideoNames[j]}}

\* the sampling times of a video of duration d on which a person is found
PersonFrameNumbers(d) ==
    {k \in 0..Floor(d, frameInterval) : Len(PersonsOf(SceneAt(k))) > 0}

\* the upload ends in this step
UploadEnds == upload.pc = "running" /\ upload'.pc = "idle"

\* C30: in a video upload of several files, a file whose duration is not
\* finite and positive or that fails to load gives a notification and
\* contributes no frames (its promise resolves at once with no frames, the
\* frames of the earlier files stay collected, and no frame of it is in the
\* store when the upload ends), and every other file whose pictures can all
\* be drawn has the frames of its sampling times with a person in the store
\* when the upload ends.
C30_BadFilesSkippedOthersStored ==
    [][/\ (upload.pc = "running" /\ videoPc = "idle" /\ BadFile(CurrentVideoFile)) =>
            /\ toast' \in {DurationToast, VideoLoadToast}
            /\ videoPc' = "done"
            /\ allFrames' = <<>>
            /\ upload' = upload
            /\ images' = images
       /\ UploadEnds =>
            \A j \in 1..Len(videoFiles) :
                IF BadFile(videoFiles[j])
                THEN FrameNumbersOf(objs', images', j) = {}
                ELSE videoFiles[j].decodes =>
                        FrameNumbersOf(objs', images', j)
                            = PersonFrameNumbers(videoFiles[j].duration)]_vars

\* C30, witness: an upload of two files has ended, the first file failed to
\* load and was notified, the second was sampled and its frames are in the
\* store
C30_FramesAfterFailedFile ==
    /\ upload.pc = "idle" /\ upload.runs = 1
    /\ Len(videoFiles) = 2
    /\ ~videoFiles[1].loads
    /\ ~BadFile(videoFiles[2]) /\ videoFiles[2].decodes
    /\ toast = VideoLoadToast
    /\ FrameNumbersOf(objs, images, 2) # {}
    /\ FrameNumbersOf(objs, images, 1) = {}

\* C30, witness of the other order: the frames of the first file are in the
\* store after the second file was refused for its duration
C30_FramesBeforeRefusedFile ==
    /\ upload.pc = "idle" /\ upload.runs = 1
    /\ Len(videoFiles) = 2
    /\ ~BadFile(videoFiles[1]) /\ videoFiles[1].decodes
    /\ videoFiles[2].loads /\ videoFiles[2].duration = Infinity
    /\ toast = DurationToast
    /\ FrameNumbersOf(objs, images, 1) # {}



(***************************************************************************)
(* Claims about the store under operations in flight.                      *)
(***************************************************************************)
\* the pictures of the frames of a store
PicturesOf(heap, store) == {heap[store[k]].file : k \in 1..Len(store)}

\* C33: a frame that the operator removed (by the delete of the marked frames
\* or by the reset) while a redetect was in flight is not put back into the
\* store when the redetect completes: the store after the completion holds
\* only pictures the store held before it.
C33_RemovedFramesStayRemoved ==
    [][(redetect.pc = "detect" /\ redetect'.pc = "idle") =>
          PicturesOf(objs', images') \subseteq PicturesOf(objs, images)]_vars


\* C34: in every reachable state the index of the shown frame is within the
\* store, and 0 when the store is empty.
C34_CurrentIndexInStore ==
    IF Len(images) = 0 THEN currentIndex = 0
    ELSE 0 <= currentIndex /\ currentIndex < Len(images)

\* C35: in every reachable state the marked set holds only indices of frames
\* of the store.
C35_MarksInStore == selectedImages \subseteq 0..(Len(images) - 1)


(***************************************************************************)
(* Claims about the labels of a frame and of its detections.               *)
(***************************************************************************)
\* C36: whenever the activityLabel of a frame is set, every detection on that
\* frame carries a label equal to that activityLabel.
C36_DetectionsCarryActivityLabel ==
    \A k \in 1..Len(images) :
        LET img == objs[images[k]]
        IN  img.activityLabel # NoLabel =>
                \A j \in 1..Len(img.detections) :
                    img.detections[j].label = img.activityLabel


(***************************************************************************)
(* Claims about the folder names of the export.                            *)
(***************************************************************************)
\* C37: within one export two distinct export labels always give distinct
\* folder names, so frames of different labels are never written to the same
\* folder path.
C37_DistinctLabelsDistinctFolders ==
    (/\ folderNames # <<>>
     /\ ExportLabelChars(exportLabels[1]) # <<>>
     /\ ExportLabelChars(exportLabels[2]) # <<>>
     /\ ExportLabelChars(exportLabels[1]) # ExportLabelChars(exportLabels[2])) =>
        folderNames[1] # folderNames[2]


(***************************************************************************)
(* Claims about the source clip and the frame number of the stored frames. *)
(***************************************************************************)
\* C38: no two frames of the store share both the source-clip name and the
\* frame number, whether they come from adjacent chunks of one video, from
\* clips of different videos or from separate extractions.
C38_SourceAndNumberUnique ==
    \A i, j \in 1..Len(images) :
        (/\ i # j
         /\ objs[images[i]].sourceVideo # NoLabel
         /\ objs[images[i]].sourceVideo = objs[images[j]].sourceVideo) =>
            objs[images[i]].frameNumber # objs[images[j]].frameNumber


(***************************************************************************)
(* Claims about the markers of the marker editor.                          *)
(***************************************************************************)
\* C39: in every reachable state of the marker editor every marker has
\* 0 <= startTime < endTime <= duration of the video that is loaded, and a
\* pending marker start, when there is one, lies in [0, duration].
C39_MarkersWithinVideo ==
    /\ \A k \in 1..Len(markers) :
          /\ 0 <= markers[k].startTime
          /\ markers[k].startTime < markers[k].endTime
          /\ markers[k].endTime <= markerVideoDuration
    /\ pendingMarkerStart # NoPending =>
          (0 <= pendingMarkerStart /\ pendingMarkerStart <= markerVideoDuration)

\* the part of C39 the edits of a marker do not touch: made by clicks alone,
\* a marker ends within the video that is loaded
C39_ClickedMarkersEndInVideo ==
    [][(pendingMarkerStart # NoPending /\ Len(markers') > Len(markers)) =>
          \A k \in 1..Len(markers') : markers'[k].endTime <= markerVideoDuration']_vars


(***************************************************************************)
(* Claims about the end of the operations that set isProcessing.           *)
(***************************************************************************)
\* an operation has set isProcessing to true and has not yet ended
VideoUploadRuns == upload.pc = "running"
FileUploadRuns == fileUpload.pc = "detect"
LoadClipsRuns == loadClips.pc # "idle"
RedetectRuns == redetect.pc = "detect"
BatchRuns == batch.pc = "detect"

\* C40: every operation that sets isProcessing to true (video upload, image
\* upload, loadClips, redetect, batch label) ends in time and sets
\* isProcessing to false as it ends, also when a file is invalid, a chunk
\* fails or a detector call finds nothing, given that every seek and every
\* detector call returns.
C40_ProcessingEnds ==
    /\ VideoUploadRuns ~> ~VideoUploadRuns
    /\ FileUploadRuns ~> ~FileUploadRuns
    /\ LoadClipsRuns ~> ~LoadClipsRuns
    /\ RedetectRuns ~> ~RedetectRuns
    /\ BatchRuns ~> ~BatchRuns
    /\ [][/\ (VideoUploadRuns /\ ~VideoUploadRuns') => ~isProcessing'
          /\ (FileUploadRuns /\ ~FileUploadRuns') => ~isProcessing'
          /\ (LoadClipsRuns /\ ~LoadClipsRuns') => ~isProcessing'
          /\ (RedetectRuns /\ ~RedetectRuns') => ~isProcessing'
          /\ (BatchRuns /\ ~BatchRuns') => ~isProcessing'
          /\ (~isProcessing /\ isProcessing') =>
                \/ ~VideoUploadRuns /\ VideoUploadRuns'
                \/ ~FileUploadRuns /\ FileUploadRuns'
                \/ ~LoadClipsRuns /\ LoadClipsRuns'
                \/ ~RedetectRuns /\ RedetectRuns'
                \/ BatchRuns']_vars

\* a video upload has ended with isProcessing false after a chunk of it failed
\* with frames of an earlier chunk extracted
C40_UploadEndedAfterChunkFailed ==
    /\ upload.pc = "idle" /\ upload.runs > 0
    /\ Len(upload.partial) > 0
    /\ ~isProcessing

\* a video upload of a file without a usable duration has ended with
\* isProcessing false
C40_UploadEndedAfterInvalidFile ==
    /\ upload.pc = "idle" /\ upload.runs > 0
    /\ duration <= 0
    /\ ~isProcessing

\* a redetect has ended with isProcessing false after a detector call that
\* found nothing, as one that fails does
C40_RedetectEndedAfterEmptyDetection ==
    /\ redetect.pc = "idle" /\ ~isProcessing
    /\ IngestsStarted + fileUpload.runs + batch.clicks = 0
    /\ Len(images) > 0
    /\ \E k \in 1..Len(images) : objs[images[k]].detections = <<>>

(***************************************************************************)
(* Claims about overlapping exports.                                       *)
(***************************************************************************)
\* C32: if a second export is started before an earlier one has finished, the
\* two exports never give the same clip ordinal to the same label: while both
\* have written their folders, the ordinals of every label are disjoint.
C32_OverlappingExportsDisjoint ==
    \A p, q \in ExportSlots :
        (p # q /\ exports[p].pc = "zipping" /\ exports[q].pc = "zipping") =>
            \A l \in FolderLabels(exports[p].folders) \cap FolderLabels(exports[q].folders) :
                OrdinalsOf(exports[p].folders, l) \cap OrdinalsOf(exports[q].folders, l) = {}

\* C32, the counters: when the later of two overlapping exports commits its
\* counters, the counter of each label it wrote is the counter the other one
\* had read plus the folders both exports wrote for the label.
C32_CountersAddUp ==
    [][\A p, q \in ExportSlots :
          (/\ p # q
           /\ exports[p].pc = "writing" /\ exports'[p].pc = "zipping"
           /\ exports[q].pc = "zipping" /\ ~exports[p].reset /\ ~exports[q].reset
           /\ exports[q].snapshot = exports[p].snapshot) =>
              \A l \in FolderLabels(exports'[p].folders) :
                  Counter(labelClipCounters', l)
                      = Counter(exports[p].snapshot, l)
                          + Cardinality(OrdinalsOf(exports'[p].folders, l))
                          + Cardinality(OrdinalsOf(exports[q].folders, l))]_vars

(***************************************************************************)
(* Claims about the persisted clip counters.                               *)
(***************************************************************************)
\* the counter of a label in the text of an entry, 0 without a member of it
PersistedCounter(entry, label) ==
    IF \E k \in 1..Len(entry.pairs) : entry.pairs[k].key = label
    THEN entry.pairs[CHOOSE k \in 1..Len(entry.pairs) : entry.pairs[k].key = label].value
    ELSE 0

\* the entry holds the registry: it is the text of an object with one member
\* for each label of the registry, of the counter of the label
EntryHolds(entry, counters) ==
    /\ entry.kind = "json"
    /\ Len(entry.pairs) = Cardinality(DOMAIN counters)
    /\ {entry.pairs[k].key : k \in 1..Len(entry.pairs)} = DOMAIN counters
    /\ \A l \in DOMAIN counters : PersistedCounter(entry, l) = counters[l]

\* the page is mounted in this step
Mounting == session'.mounts = session.mounts + 1

\* C31: after every mutation of the registry the persisted entry holds the
\* registry in memory; mounting the page loads exactly the mapping of the
\* entry, the empty mapping when the entry is absent or cannot be read; and
\* the first export after a mount, with no reset of the counters during it,
\* numbers the folders of each label from the persisted counter of the label
\* plus one on.
C31_RegistryPersistedAndReloaded ==
    [][/\ labelClipCounters' # labelClipCounters => EntryHolds(localStorage', labelClipCounters')
       /\ Mounting =>
            IF localStorage.kind = "json"
            THEN EntryHolds(localStorage, labelClipCounters')
            ELSE labelClipCounters' = EmptyCounters
       /\ \A p \in ExportSlots :
            (/\ exports[p].pc = "writing" /\ exports'[p].pc = "zipping"
             /\ session.exports = 1 /\ ~exports[p].reset) =>
                \A l \in FolderLabels(exports'[p].folders) :
                    OrdinalsOf(exports'[p].folders, l)
                        = (PersistedCounter(localStorage, l) + 1)
                            .. (PersistedCounter(localStorage, l)
                                  + Cardinality(OrdinalsOf(exports'[p].folders, l)))]_vars

\* C31, witness: the page was reloaded, the entry it loaded held a counter of
\* at least 1 for a label, and the first export after the reload has written
\* the folder of the next ordinal of that label
C31_ExportContinuesAfterReload ==
    /\ session.mounts = 2 /\ session.exports = 1
    /\ session.entry.kind = "json"
    /\ \E p \in ExportSlots :
          /\ exports[p].pc = "zipping"
          /\ \E k \in 1..Len(exports[p].folders) :
                /\ PersistedCounter(session.entry, exports[p].folders[k].label) >= 1
                /\ exports[p].folders[k].clipNumber
                     = PersistedCounter(session.entry, exports[p].folders[k].label) + 1

\* C31, witness of the unreadable entry: the page was mounted on an entry
\* that JSON.parse throws on, and the registry is empty
C31_UnreadableEntryLoadsEmpty ==
    /\ session.mounted
    /\ session.entry.kind = "garbage"
    /\ labelClipCounters = EmptyCounters
    /\ EntryHolds(localStorage, EmptyCounters)

(***************************************************************************)
(* Specifications.                                                         *)
(***************************************************************************)
InitSpecSampling == InitSampling /\ InitClipsOff /\ InitStoreEmpty /\ InitExport /\ InitOps /\ InitIngestOff /\ InitManualOff /\ InitAnnotateOff /\ InitDetectOff
SpecSampling == InitSpecSampling /\ [][NextSampling]_vars

InitSpecClips == InitSamplingOff /\ InitClips /\ InitStoreEmpty /\ InitExport /\ InitOps /\ InitIngestOff /\ InitManualOff /\ InitAnnotateOff /\ InitDetectOff
SpecClips == InitSpecClips /\ [][NextClips]_vars

InitSpecClipsExample == InitSamplingOff /\ InitClipsExample /\ InitStoreEmpty /\ InitExport /\ InitOps /\ InitIngestOff /\ InitManualOff /\ InitAnnotateOff /\ InitDetectOff
SpecClipsExample == InitSpecClipsExample /\ [][NextClips]_vars

InitSpecExport == InitSamplingOff /\ InitClipsOff /\ InitStoreOfRuns /\ InitExport /\ InitOps /\ InitIngestOff /\ InitManualOff /\ InitAnnotateOff /\ InitDetectOff
SpecExport == InitSpecExport /\ [][NextExport]_vars

InitSpecStore == InitSamplingOff /\ InitClipsOff /\ InitStoreLabelled /\ InitExport /\ InitOps /\ InitIngestOff /\ InitManualOff /\ InitAnnotateOff /\ InitDetectOff
SpecStore == InitSpecStore /\ [][NextStore]_vars

InitSpecIngest == InitIngest /\ InitClipsOff /\ InitStoreBefore /\ InitExport /\ InitOps /\ InitManualOff /\ InitAnnotateOff /\ InitDetectOff
SpecIngest == InitSpecIngest /\ [][NextIngest]_vars

InitSpecLabels == InitSamplingOff /\ InitClipsOff /\ InitStoreOfKinds /\ InitExport /\ InitOps /\ InitIngestOff /\ InitManualOff /\ InitAnnotateOff /\ InitDetectOff
SpecLabels == InitSpecLabels /\ [][NextLabels]_vars

InitSpecManual == InitSamplingOff /\ InitClipsInterval /\ InitStoreEmpty /\ InitExport /\ InitOps /\ InitIngestOff /\ InitManual /\ InitAnnotateOff /\ InitDetectOff
SpecManual == InitSpecManual /\ [][NextManual]_vars

InitSpecManualLimited == InitSamplingOff /\ InitClipsInterval /\ InitStoreEmpty /\ InitExport /\ InitOps /\ InitIngestOff /\ InitManual /\ InitAnnotateOff /\ InitDetectOff
SpecManualLimited == InitSpecManualLimited /\ [][NextManualLimited]_vars

InitSpecAnnotate == InitSamplingOff /\ InitClipsOff /\ InitStoreFresh /\ InitExport /\ InitOps /\ InitIngestOff /\ InitManualOff /\ InitAnnotate /\ InitDetectOff
SpecAnnotate == InitSpecAnnotate /\ [][NextAnnotate]_vars

InitSpecDetect == InitSamplingOff /\ InitClipsOff /\ InitStoreEmpty /\ InitExport /\ InitOps /\ InitIngestOff /\ InitManualOff /\ InitAnnotateOff /\ InitDetect /\ InitSeekOff /\ InitBatchOff /\ InitStorageOff /\ InitPathOff
SpecDetect == InitSpecDetect /\ [][NextDetect]_vars
InitSpecModel == InitModelInputs /\ InitClipsOff /\ InitStoreUnlabelled /\ InitExport /\ InitOps /\ InitManualOff /\ InitAnnotateOff /\ InitBoxOff /\ InitModel /\ InitSeekOff /\ InitBatchOff /\ InitStorageOff /\ InitPathOff
SpecModel == InitSpecModel /\ [][NextModel]_vars
InitSpecSeek == InitSamplingOff /\ InitClipsOff /\ InitStoreEmpty /\ InitExport /\ InitOps /\ InitIngestOff /\ InitManualOff /\ InitAnnotateOff /\ InitBoxOff /\ InitModelOff /\ InitSeek /\ InitBatchOff /\ InitStorageOff /\ InitPathOff
SpecSeek == InitSpecSeek /\ [][NextSeek]_vars
InitSpecDetections == InitSamplingOff /\ InitClipsOff /\ InitStoreOfKinds /\ InitExport /\ InitOps /\ InitIngestOff /\ InitManualOff /\ InitAnnotateOff /\ InitDetectOff
SpecDetections == InitSpecDetections /\ [][NextDetections]_vars

InitSpecBatch == InitBatch /\ InitClipsOff /\ InitStoreEmpty /\ InitExport /\ InitOps /\ InitManualOff /\ InitAnnotateOff /\ InitBoxOff /\ InitModelOff /\ InitSeekOff /\ InitStorageOff /\ InitPathOff
SpecBatch == InitSpecBatch /\ [][NextBatch]_vars

InitSpecStorage == InitSamplingOff /\ InitClipsOff /\ InitStoreEmpty /\ InitExport /\ InitOps /\ InitIngestOff /\ InitManualOff /\ InitAnnotateOff /\ InitBoxOff /\ InitModelOff /\ InitSeekOff /\ InitBatchOff /\ InitStorage /\ InitPathOff
SpecStorage == InitSpecStorage /\ [][NextStorage]_vars

InitSpecInterleave == InitSamplingOff /\ InitClipsOff /\ InitStoreLabelled /\ InitExport /\ InitOps /\ InitIngestOff /\ InitManualOff /\ InitAnnotateOff /\ InitDetectOff
SpecInterleave == InitSpecInterleave /\ [][NextInterleave]_vars

InitSpecPath == InitSamplingOff /\ InitClipsOff /\ InitStoreEmpty /\ InitExport /\ InitOps /\ InitIngestOff /\ InitManualOff /\ InitAnnotateOff /\ InitBoxOff /\ InitModelOff /\ InitSeekOff /\ InitBatchOff /\ InitStorageOff /\ InitPath
SpecPath == InitSpecPath /\ [][NextPath]_vars

InitSpecMarkers == InitSamplingOff /\ InitClipsInterval /\ InitStoreEmpty /\ InitExport /\ InitOps /\ InitIngestOff /\ InitManual /\ InitAnnotateOff /\ InitDetectOff
SpecMarkers == InitSpecMarkers /\ [][NextMarkers]_vars

InitSpecProcessing == InitModelInputs /\ InitClipsOff /\ InitStoreUnlabelled /\ InitExport /\ InitOps /\ InitManualOff /\ InitAnnotateOff /\ InitBoxOff /\ InitModelOff /\ InitSeekOff /\ InitBatchOff /\ InitStorageOff /\ InitPathOff
SpecProcessing == InitSpecProcessing /\ [][NextProcessing]_vars
SpecProcessingFair == InitSpecProcessing /\ [][NextProcessing]_vars /\ ProcessingFairness

====
